---- MODULE Spec2Model ----
(***************************************************************************)
(* LED strip command core of PSL_UDP: command parser, colour state,        *)
(* segment renderer, HSV converter, motion mapper and frame decoder.       *)
(*                                                                         *)
(* Two firmware builds are modelled side by side; `build` selects one:     *)
(*   "pico"    src/firmware/src/main.c  (16 LEDs, sscanf parser, no frame) *)
(*   "arduino" src/unnamed/part_004     (300 LEDs, strtof parser, frames)  *)
(*                                                                         *)
(* A C float is a fixed-point integer counting 1/SCALE units ("ticks"):    *)
(* hue 90.0 is 90000, brightness 0.5 is 500.  Arithmetic is exact on that  *)
(* grid; a quotient is truncated toward zero.  The text alphabet holds     *)
(* finite decimal numbers only.                                            *)
(***************************************************************************)
EXTENDS Integers, Sequences, FiniteSets, TLC

VARIABLES
    build,               \* which firmware build runs
    segment_start,       \* uint16_t segment_start
    segment_end,         \* uint16_t segment_end
    current_hue,         \* float, ticks of a degree
    current_saturation,  \* float, ticks
    current_brightness,  \* float, ticks
    hue_offset,          \* float, ticks of a degree
    brightness_offset,   \* float, ticks
    pixels,              \* the strip: [0..NUM_LEDS-1 -> colour shown, 0xRRGGBB]
    adjusted_hue,        \* local of the last render_color_from_state
    adjusted_brightness, \* local of the last render_color_from_state
    halted,              \* the hardware reset has been triggered
    reset_supported,     \* the platform macros give reset_system a reset to call
    last_payload,        \* bytes of the payload handled last
    last,                \* what the last callback did: [dispatch, handler, arg, note]
    prev,                \* what the callback before it did
    hue_log,             \* arguments of the last set_hue and the adjust_hue calls since
    ncmds,               \* payloads received so far
    probe,               \* a function applied on its own: [fn, arg, out]
    inbox,               \* writes the radio has received and the run loop has not dispatched
    active,              \* payloads of the callback invocations in progress, innermost first
    seg_app,             \* the BLE control app: [kind, segmentStart, segmentEnd, sent]
    udp,                 \* the UDP app's connection manager and its network connections
    ap,                  \* the UDP access-point firmware: main, network stack, listener
    ble,                 \* the BLE apps' manager: connection and service discovery
    adj                  \* the UDP app's hold-to-adjust state and its queue

\* the firmware and its transport
FirmwareVars ==
    <<build, segment_start, segment_end, current_hue, current_saturation,
      current_brightness, hue_offset, brightness_offset, pixels,
      adjusted_hue, adjusted_brightness, halted, reset_supported,
      last_payload, last, prev, hue_log, ncmds, probe, inbox, active>>

\* the programs on the other side
AppVars == <<seg_app, udp, ap, ble, adj>>

vars == <<FirmwareVars, AppVars>>

----------------------------------------------------------------------------
(* Bounds of the exploration *)

MaxCmds == 3
MaxSegCmds == 3
MaxFrameCmds == 3
MaxParserCmds == 3

----------------------------------------------------------------------------
(* Numbers *)

SCALE == 10 * 100

Builds == {"pico", "arduino"}

NUM_LEDS == 16
kLedCount == 300

\* the apps' private let maxLights = 300
maxLights == 300
PACKET_BUFFER == 128
kFrameCommandId == 160

LedCount(b) == IF b = "pico" THEN NUM_LEDS ELSE kLedCount

MIN_BRIGHTNESS_NORMALIZED == (5 * SCALE) \div 100
MAX_BRIGHTNESS_NORMALIZED == (100 * SCALE) \div 255
kMinBrightness == 0 * SCALE
kMaxBrightness == 1 * SCALE

MinBrightness(b) == IF b = "pico" THEN MIN_BRIGHTNESS_NORMALIZED ELSE kMinBrightness
MaxBrightness(b) == IF b = "pico" THEN MAX_BRIGHTNESS_NORMALIZED ELSE kMaxBrightness

DefaultHue(b) == IF b = "pico" THEN 210 * SCALE ELSE 25 * SCALE
DefaultSaturation(b) == IF b = "pico" THEN SCALE \div 2 ELSE SCALE
DefaultBrightness(b) == IF b = "pico" THEN SCALE \div 2 ELSE (125 * SCALE) \div 255

Abs(a) == IF a < 0 THEN -a ELSE a

\* C quotient of two numbers, truncated toward zero
Quot(a, b) == IF (a < 0) = (b < 0) THEN Abs(a) \div Abs(b) ELSE -(Abs(a) \div Abs(b))

\* fmodf(a, b) for b > 0: the remainder keeps the sign of a
fmodf(a, b) == IF a >= 0 THEN a % b ELSE -((-a) % b)

\* an array as it is held in memory: its elements, computed once, rather than
\* the expression that yields them
Stored(f) == CHOOSE g \in {f} : g = f

\* the one element of a singleton set; { e : x \in {v} } binds x to the value
\* of v once, so that e reads a state without computing it again
The(S) == CHOOSE x \in S : TRUE

clampf(value, min, max) ==
    IF value < min THEN min
    ELSE IF value > max THEN max
    ELSE value

----------------------------------------------------------------------------
(* HSV converter *)

\* (uint8_t)clampf(t * 255.0f, 0.0f, 255.0f) for a channel t in ticks
Channel(t) == clampf(t * 255, 0, 255 * SCALE) \div SCALE

\* mutant: the saturation is taken the wrong way round
hsv_to_rgb_inverted_saturation(h0, s, v) ==
    LET hm == fmodf(h0, 360 * SCALE)
        h == IF hm < 0 THEN hm + 360 * SCALE ELSE hm
        c == Quot(v * (SCALE - s), SCALE)
        \* 1 - |fmod(h/60, 2) - 1| as a fraction of 60 degrees
        tri == 60 * SCALE - Abs(fmodf(h, 120 * SCALE) - 60 * SCALE)
        x == Quot(c * tri, 60 * SCALE)
        m == v - c
        rgb1 == IF h < 60 * SCALE THEN <<c, x, 0>>
                ELSE IF h < 120 * SCALE THEN <<x, c, 0>>
                ELSE IF h < 180 * SCALE THEN <<0, c, x>>
                ELSE IF h < 240 * SCALE THEN <<0, x, c>>
                ELSE IF h < 300 * SCALE THEN <<x, 0, c>>
                ELSE <<c, 0, x>>
    IN <<Channel(rgb1[1] + m), Channel(rgb1[2] + m), Channel(rgb1[3] + m)>>

\* mutant: the second component is not scaled by the chroma
hsv_to_rgb_unscaled_x(h0, s, v) ==
    LET hm == fmodf(h0, 360 * SCALE)
        h == IF hm < 0 THEN hm + 360 * SCALE ELSE hm
        c == Quot(v * s, SCALE)
        \* 1 - |fmod(h/60, 2) - 1| as a fraction of 60 degrees
        tri == 60 * SCALE - Abs(fmodf(h, 120 * SCALE) - 60 * SCALE)
        x == Quot(SCALE * tri, 60 * SCALE)
        m == v - c
        rgb1 == IF h < 60 * SCALE THEN <<c, x, 0>>
                ELSE IF h < 120 * SCALE THEN <<x, c, 0>>
                ELSE IF h < 180 * SCALE THEN <<0, c, x>>
                ELSE IF h < 240 * SCALE THEN <<0, x, c>>
                ELSE IF h < 300 * SCALE THEN <<x, 0, c>>
                ELSE <<c, 0, x>>
    IN <<Channel(rgb1[1] + m), Channel(rgb1[2] + m), Channel(rgb1[3] + m)>>

hsv_to_rgb(h0, s, v) ==
    LET hm == fmodf(h0, 360 * SCALE)
        h == IF hm < 0 THEN hm + 360 * SCALE ELSE hm
        c == Quot(v * s, SCALE)
        \* 1 - |fmod(h/60, 2) - 1| as a fraction of 60 degrees
        tri == 60 * SCALE - Abs(fmodf(h, 120 * SCALE) - 60 * SCALE)
        x == Quot(c * tri, 60 * SCALE)
        m == v - c
        rgb1 == IF h < 60 * SCALE THEN <<c, x, 0>>
                ELSE IF h < 120 * SCALE THEN <<x, c, 0>>
                ELSE IF h < 180 * SCALE THEN <<0, c, x>>
                ELSE IF h < 240 * SCALE THEN <<0, x, c>>
                ELSE IF h < 300 * SCALE THEN <<x, 0, c>>
                ELSE <<c, 0, x>>
    IN <<Channel(rgb1[1] + m), Channel(rgb1[2] + m), Channel(rgb1[3] + m)>>

\* strip.Color(r, g, b): the colour of one pixel as one word
Color(r, g, b) == r * 65536 + g * 256 + b

Off == 0

----------------------------------------------------------------------------
(* Colour state and segment renderer.  A handler is an operator from the   *)
(* state record s to the state record after it.                            *)

\* mutant: pixels outside the segment keep what they show
write_strip_color_partial(s0, color0) ==
    The({ [s EXCEPT !.pixels =
              [i \in 0..(LedCount(s.build) - 1) |->
                  IF i >= s.segment_start /\ i <= s.segment_end THEN color
                  ELSE s.pixels[i]]]
          : s \in {s0}, color \in {color0} })

write_strip_color(s0, color0) ==
    The({ [s EXCEPT !.pixels =
              [i \in 0..(LedCount(s.build) - 1) |->
                  IF i >= s.segment_start /\ i <= s.segment_end THEN color ELSE Off]]
          : s \in {s0}, color \in {color0} })

\* mutant: the brightness handed to the converter is not clamped
render_color_from_state_unclamped(s0) ==
    The({ LET hm == fmodf(s.current_hue + s.hue_offset, 360 * SCALE)
              ah == IF hm < 0 THEN hm + 360 * SCALE ELSE hm
              ab == s.current_brightness + s.brightness_offset
              rgb == hsv_to_rgb(ah, s.current_saturation, ab)
              color == Color(rgb[1], rgb[2], rgb[3])
          IN write_strip_color(
                 [s EXCEPT !.adjusted_hue = ah, !.adjusted_brightness = ab], color)
          : s \in {s0} })

render_color_from_state(s0) ==
    The({ LET hm == fmodf(s.current_hue + s.hue_offset, 360 * SCALE)
              ah == IF hm < 0 THEN hm + 360 * SCALE ELSE hm
              ab == clampf(s.current_brightness + s.brightness_offset,
                           MinBrightness(s.build), MaxBrightness(s.build))
              rgb == hsv_to_rgb(ah, s.current_saturation, ab)
              color == Color(rgb[1], rgb[2], rgb[3])
          IN write_strip_color(
                 [s EXCEPT !.adjusted_hue = ah, !.adjusted_brightness = ab], color)
          : s \in {s0} })

\* mutant: the start > end repair is missing
clamp_segment_bounds_no_repair(s0) ==
    The({ LET n == LedCount(s.build)
              s1 == IF s.segment_start >= n THEN [s EXCEPT !.segment_start = n - 1] ELSE s
          IN IF s1.segment_end >= n THEN [s1 EXCEPT !.segment_end = n - 1] ELSE s1
          : s \in {s0} })

\* mutant: the repair pulls the start down instead of the end up
clamp_segment_bounds_pull_start(s0) ==
    The({ LET n == LedCount(s.build)
              s1 == IF s.segment_start >= n THEN [s EXCEPT !.segment_start = n - 1] ELSE s
              s2 == IF s1.segment_end >= n THEN [s1 EXCEPT !.segment_end = n - 1] ELSE s1
          IN IF s2.segment_start > s2.segment_end
             THEN [s2 EXCEPT !.segment_start = s2.segment_end]
             ELSE s2
          : s \in {s0} })

clamp_segment_bounds(s0) ==
    The({ LET n == LedCount(s.build)
              s1 == IF s.segment_start >= n THEN [s EXCEPT !.segment_start = n - 1] ELSE s
              s2 == IF s1.segment_end >= n THEN [s1 EXCEPT !.segment_end = n - 1] ELSE s1
          IN IF s2.segment_start > s2.segment_end
             THEN [s2 EXCEPT !.segment_end = s2.segment_start]
             ELSE s2
          : s \in {s0} })

set_segment_start(s, start) ==
    LET index == IF start >= LedCount(s.build) THEN LedCount(s.build) - 1 ELSE start
    IN render_color_from_state(
           clamp_segment_bounds([s EXCEPT !.segment_start = index]))

set_segment_end(s, end) ==
    LET index == IF end >= LedCount(s.build) THEN LedCount(s.build) - 1 ELSE end
    IN render_color_from_state(
           clamp_segment_bounds([s EXCEPT !.segment_end = index]))

\* mutant: the degrees are added to the base hue
set_hue_additive(s, degrees) ==
    LET nm == fmodf(s.current_hue + degrees, 360 * SCALE)
        normalized == IF nm < 0 THEN nm + 360 * SCALE ELSE nm
    IN render_color_from_state([s EXCEPT !.current_hue = normalized, !.hue_offset = 0])

\* mutant: the offset survives an absolute set
set_hue_keep_offset(s, degrees) ==
    LET nm == fmodf(degrees, 360 * SCALE)
        normalized == IF nm < 0 THEN nm + 360 * SCALE ELSE nm
    IN render_color_from_state([s EXCEPT !.current_hue = normalized])

set_hue(s, degrees) ==
    LET nm == fmodf(degrees, 360 * SCALE)
        normalized == IF nm < 0 THEN nm + 360 * SCALE ELSE nm
    IN render_color_from_state(
           [s EXCEPT !.current_hue = normalized, !.hue_offset = 0])

\* mutant: the percent is taken as a fraction
set_brightness_no_percent(s, percent) ==
    render_color_from_state(
        [s EXCEPT !.current_brightness =
                      clampf(percent, MinBrightness(s.build), MaxBrightness(s.build)),
                  !.brightness_offset = 0])

set_brightness(s, percent) ==
    LET normalized == Quot(percent, 100)
    IN render_color_from_state(
           [s EXCEPT !.current_brightness =
                         clampf(normalized, MinBrightness(s.build), MaxBrightness(s.build)),
                     !.brightness_offset = 0])

\* mutant: the delta replaces the offset instead of adding to it
adjust_hue_overwrite(s, delta) ==
    LET hm == fmodf(delta, 360 * SCALE)
    IN render_color_from_state(
           [s EXCEPT !.hue_offset = IF hm < 0 THEN hm + 360 * SCALE ELSE hm])

\* mutant: the remainder keeps the sign fmodf gives it
adjust_hue_signed(s, delta) ==
    render_color_from_state(
        [s EXCEPT !.hue_offset = fmodf(s.hue_offset + delta, 360 * SCALE)])

adjust_hue(s, delta) ==
    LET hm == fmodf(s.hue_offset + delta, 360 * SCALE)
    IN render_color_from_state(
           [s EXCEPT !.hue_offset = IF hm < 0 THEN hm + 360 * SCALE ELSE hm])

\* mutant: the adjusted value is committed to the base
adjust_brightness_commit(s, delta) ==
    LET desired == clampf(s.current_brightness + s.brightness_offset + delta,
                          MinBrightness(s.build), MaxBrightness(s.build))
    IN render_color_from_state(
           [s EXCEPT !.current_brightness = desired, !.brightness_offset = 0])

\* mutant: the delta is taken as a percentage
adjust_brightness_percent(s, delta) ==
    LET desired == clampf(s.current_brightness + s.brightness_offset + Quot(delta, 100),
                          MinBrightness(s.build), MaxBrightness(s.build))
    IN render_color_from_state(
           [s EXCEPT !.brightness_offset = desired - s.current_brightness])

\* mutant: the offset accumulates unclamped, only the rendering clamps
adjust_brightness_windup(s, delta) ==
    render_color_from_state([s EXCEPT !.brightness_offset = @ + delta])

adjust_brightness(s, delta) ==
    LET desired == clampf(s.current_brightness + s.brightness_offset + delta,
                          MinBrightness(s.build), MaxBrightness(s.build))
    IN render_color_from_state(
           [s EXCEPT !.brightness_offset = desired - s.current_brightness])

\* main.c reboots through the watchdog; part_004 does so only where the
\* platform macros select a reset, and otherwise prints a line and returns
reset_system(s) == IF s.reset_supported THEN [s EXCEPT !.halted = TRUE] ELSE s

----------------------------------------------------------------------------
(* Motion mapper *)

\* 3.14159f in units of 1/100000
PI5 == 314159

\* clampf((angle + 3.14159f) / (2.0f * 3.14159f), 0.0f, 1.0f), angle in ticks
NormFull(angle) == clampf(Quot((angle * 100 + PI5) * SCALE, 2 * PI5), 0, SCALE)

\* clampf((angle + 3.14159f / 2.0f) / 3.14159f, 0.0f, 1.0f), angle in ticks
NormHalf(angle) == clampf(Quot((2 * angle * 100 + PI5) * SCALE, 2 * PI5), 0, SCALE)

\* mutant: the brightness is clamped to the literal range 0.05 .. 1.0
render_motion_color_literal_range(s, pitch, roll, yaw) ==
    LET norm_roll == NormFull(roll)
        norm_yaw == NormFull(yaw)
        norm_pitch == NormHalf(pitch)
        hue == fmodf(norm_yaw * 360 + norm_roll * 120, 360 * SCALE)
        saturation == clampf((35 * SCALE) \div 100 + Quot(norm_roll * 65, 100),
                             (2 * SCALE) \div 10, SCALE)
        brightness == clampf((2 * SCALE) \div 10 + Quot(norm_pitch * 8, 10),
                             (5 * SCALE) \div 100, SCALE)
        s1 == [s EXCEPT !.current_hue = hue,
                        !.current_saturation = saturation,
                        !.current_brightness = brightness]
        \* part_004 also zeroes both offsets; main.c leaves them
        s2 == IF s.build = "arduino"
              THEN [s1 EXCEPT !.hue_offset = 0, !.brightness_offset = 0]
              ELSE s1
    IN render_color_from_state(s2)

render_motion_color(s, pitch, roll, yaw) ==
    LET norm_roll == NormFull(roll)
        norm_yaw == NormFull(yaw)
        norm_pitch == NormHalf(pitch)
        hue == fmodf(norm_yaw * 360 + norm_roll * 120, 360 * SCALE)
        saturation == clampf((35 * SCALE) \div 100 + Quot(norm_roll * 65, 100),
                             (2 * SCALE) \div 10, SCALE)
        brightness == clampf((2 * SCALE) \div 10 + Quot(norm_pitch * 8, 10),
                             MinBrightness(s.build), MaxBrightness(s.build))
        s1 == [s EXCEPT !.current_hue = hue,
                        !.current_saturation = saturation,
                        !.current_brightness = brightness]
        \* part_004 also zeroes both offsets; main.c leaves them
        s2 == IF s.build = "arduino"
              THEN [s1 EXCEPT !.hue_offset = 0, !.brightness_offset = 0]
              ELSE s1
    IN render_color_from_state(s2)

----------------------------------------------------------------------------
(* Text scanning.  A buffer is the sequence of bytes before the NUL that   *)
(* handle_motion_packet appends; At reads the NUL past the end.            *)

Ascii ==
    [c \in {"0","1","2","3","4","5","6","7","8","9"} |->
        CASE c = "0" -> 48 [] c = "1" -> 49 [] c = "2" -> 50 [] c = "3" -> 51
          [] c = "4" -> 52 [] c = "5" -> 53 [] c = "6" -> 54 [] c = "7" -> 55
          [] c = "8" -> 56 [] c = "9" -> 57] @@
    ("," :> 44) @@ ("-" :> 45) @@ ("+" :> 43) @@ ("." :> 46) @@ (" " :> 32) @@
    ("_" :> 95) @@ ("A" :> 65) @@ ("B" :> 66) @@ ("D" :> 68) @@ ("E" :> 69) @@
    ("G" :> 71) @@ ("H" :> 72) @@ ("N" :> 78) @@ ("R" :> 82) @@ ("S" :> 83) @@
    ("T" :> 84) @@ ("a" :> 97) @@ ("b" :> 98) @@ ("e" :> 101) @@ ("g" :> 103) @@
    ("m" :> 109) @@ ("n" :> 110) @@ ("o" :> 111) @@ ("r" :> 114) @@ ("t" :> 116) @@
    ("u" :> 117) @@ ("x" :> 120)

\* the bytes of a string literal given as a tuple of characters
T(chars) == [i \in DOMAIN chars |-> Ascii[chars[i]]]

At(buf, i) == IF i >= 0 /\ i < Len(buf) THEN buf[i + 1] ELSE 0

IsSpace(c) == c = 32 \/ (c >= 9 /\ c <= 13)
IsDigit(c) == c >= 48 /\ c <= 57

\* the first position from i on that holds no white space (the terminator
\* at Len(buf) is none)
SkipSpace(buf, i) ==
    IF ~IsSpace(At(buf, i)) THEN i
    ELSE The({ CHOOSE j \in rest : \A k \in rest : j <= k
               : rest \in {{j \in (i + 1)..Len(buf) : ~IsSpace(At(buf, j))}} })

\* strncmp(buffer, prefix, strlen(prefix)) == 0
strncmp_eq(buf, prefix) == \A i \in 0..(Len(prefix) - 1) : At(buf, i) = prefix[i + 1]

\* integer digits from position i: the value and the first position after them
RECURSIVE ScanDigits(_, _, _)
ScanDigits(buf, i, acc) ==
    IF IsDigit(At(buf, i))
    THEN ScanDigits(buf, i + 1, acc * 10 + (At(buf, i) - 48))
    ELSE [val |-> acc, end |-> i]

\* fraction digits from position i: ticks (digits below one tick are dropped)
RECURSIVE ScanFrac(_, _, _, _)
ScanFrac(buf, i, acc, weight) ==
    IF IsDigit(At(buf, i))
    THEN ScanFrac(buf, i + 1, acc + (At(buf, i) - 48) * weight, weight \div 10)
    ELSE [val |-> acc, end |-> i]

\* strtof(buf + start, &end_ptr): decimal notation, value in ticks;
\* end = start when no conversion is performed
strtof(buf, start) ==
    LET i0 == SkipSpace(buf, start)
        neg == At(buf, i0) = 45
        i1 == IF At(buf, i0) = 45 \/ At(buf, i0) = 43 THEN i0 + 1 ELSE i0
        ip == ScanDigits(buf, i1, 0)
        dot == At(buf, ip.end) = 46
        fp == IF dot THEN ScanFrac(buf, ip.end + 1, 0, SCALE \div 10)
                     ELSE [val |-> 0, end |-> ip.end]
        ndigits == (ip.end - i1) + (IF dot THEN fp.end - (ip.end + 1) ELSE 0)
        mag == ip.val * SCALE + fp.val
    IN IF ndigits = 0
       THEN [val |-> 0, end |-> start]
       ELSE [val |-> IF neg THEN -mag ELSE mag, end |-> fp.end]

\* limits.h; stands for any value too large for the strip, which the segment
\* handlers clamp alike
ULONG_MAX == 2^31 - 1

\* strtoul(buf + start, &end_ptr, 10); a negated non-zero value wraps to a
\* huge one and a value out of range saturates, both stand as ULONG_MAX
strtoul(buf, start) ==
    LET i0 == SkipSpace(buf, start)
        neg == At(buf, i0) = 45
        i1 == IF At(buf, i0) = 45 \/ At(buf, i0) = 43 THEN i0 + 1 ELSE i0
        ip == ScanDigits(buf, i1, 0)
    IN IF ip.end = i1
       THEN [val |-> 0, end |-> start]
       ELSE [val |-> IF neg /\ ip.val > 0 THEN ULONG_MAX ELSE ip.val, end |-> ip.end]

\* mutant: the rule is taken on its prefix alone, a missing number reading as 0
parse_prefixed_float_eager(buffer, prefix) ==
    IF ~strncmp_eq(buffer, prefix)
    THEN [ok |-> FALSE, val |-> 0]
    ELSE [ok |-> TRUE, val |-> strtof(buffer, Len(prefix)).val]

\* part_004: the parsed value, or no match
parse_prefixed_float(buffer, prefix) ==
    IF ~strncmp_eq(buffer, prefix)
    THEN [ok |-> FALSE, val |-> 0]
    ELSE LET r == strtof(buffer, Len(prefix))
         IN IF r.end = Len(prefix) THEN [ok |-> FALSE, val |-> 0]
                                   ELSE [ok |-> TRUE, val |-> r.val]

parse_segment_command(buffer, prefix) ==
    IF ~strncmp_eq(buffer, prefix)
    THEN [ok |-> FALSE, val |-> 0]
    ELSE LET r == strtoul(buffer, Len(prefix))
         IN IF r.end = Len(prefix) THEN [ok |-> FALSE, val |-> 0]
                                   ELSE [ok |-> TRUE, val |-> r.val]

parse_motion_triplet(buffer) ==
    LET p == strtof(buffer, 0)
        r == strtof(buffer, p.end + 1)
        y == strtof(buffer, r.end + 1)
    IN IF p.end = 0 \/ At(buffer, p.end) # 44 THEN [ok |-> FALSE, val |-> <<0, 0, 0>>]
       ELSE IF r.end = p.end + 1 \/ At(buffer, r.end) # 44
            THEN [ok |-> FALSE, val |-> <<0, 0, 0>>]
       ELSE [ok |-> y.end # r.end + 1, val |-> <<p.val, r.val, y.val>>]

\* main.c: sscanf(buffer, "<prefix>%f", &delta) == 1
sscanf_f(buffer, prefix) ==
    IF ~strncmp_eq(buffer, prefix)
    THEN [ok |-> FALSE, val |-> 0]
    ELSE LET r == strtof(buffer, Len(prefix))
         IN [ok |-> r.end # Len(prefix), val |-> r.val]

\* main.c: sscanf(buffer, "<prefix>%lu", &segment_idx) == 1
sscanf_lu(buffer, prefix) ==
    IF ~strncmp_eq(buffer, prefix)
    THEN [ok |-> FALSE, val |-> 0]
    ELSE LET r == strtoul(buffer, Len(prefix))
         IN [ok |-> r.end # Len(prefix), val |-> r.val]

\* main.c: sscanf(buffer, "%f,%f,%f", &pitch, &roll, &yaw) == 3
sscanf_fff(buffer) ==
    LET p == strtof(buffer, 0)
        r == strtof(buffer, p.end + 1)
        y == strtof(buffer, r.end + 1)
    IN [ok |-> /\ p.end # 0 /\ At(buffer, p.end) = 44
               /\ r.end # p.end + 1 /\ At(buffer, r.end) = 44
               /\ y.end # r.end + 1,
        val |-> <<p.val, r.val, y.val>>]

kRESET == T(<<"R","E","S","E","T">>)
kH_SET == T(<<"H","_","S","E","T",",">>)
kB_SET == T(<<"B","_","S","E","T",",">>)
kH == T(<<"H",",">>)
kB == T(<<"B",",">>)
kSEG_START == T(<<"S","E","G","_","S","T","A","R","T",",">>)
kSEG_END == T(<<"S","E","G","_","E","N","D",",">>)

----------------------------------------------------------------------------
(* Command parser *)

\* note of what a callback did: `last` moves to `prev`; hue_log follows the
\* hue commands and is emptied when the motion mapper sets the hue
Did(s0, dispatch, handler, arg, note) ==
    The({ [s EXCEPT !.last = [dispatch |-> dispatch, handler |-> handler,
                              arg |-> arg, note |-> note],
                    !.prev = s.last,
                    !.ncmds = @ + 1,
                    !.hue_log = IF handler = "set_hue" THEN arg
                                ELSE IF handler = "adjust_hue" /\ @ # <<>> THEN @ \o arg
                                ELSE IF handler = "render_motion_color" THEN <<>>
                                ELSE @]
          : s \in {s0} })

Max0(a, b) == IF a > b THEN a ELSE b

Min(a, b) == IF a < b THEN a ELSE b

\* mutant: the copy takes the whole payload
CopyToBuffer_unbounded(packet) == packet

\* the bounded, NUL-terminated copy made on entry
CopyToBuffer(packet) == SubSeq(packet, 1, Min(Len(packet), PACKET_BUFFER - 1))

\* mutant: the command value is taken as the index
ZeroBased_asis(v) == v

\* 1-based command value to 0-based index
ZeroBased(v) == IF v > 0 THEN v - 1 ELSE 0

\* part_004
handle_motion_packet(s, packet) ==
  The({ The({
       IF strncmp_eq(buffer, kRESET)
           THEN Did(reset_system(s), "text", "reset_system", <<>>, "ok")
       ELSE IF hs.ok THEN Did(set_hue(s, hs.val), "text", "set_hue", <<hs.val>>, "ok")
       ELSE IF bs.ok THEN Did(set_brightness(s, bs.val), "text", "set_brightness", <<bs.val>>, "ok")
       ELSE IF ha.ok THEN Did(adjust_hue(s, ha.val), "text", "adjust_hue", <<ha.val>>, "ok")
       ELSE IF ba.ok THEN Did(adjust_brightness(s, ba.val), "text", "adjust_brightness", <<ba.val>>, "ok")
       ELSE IF ss.ok THEN Did(set_segment_start(s, ZeroBased(ss.val)), "text",
                              "set_segment_start", <<ZeroBased(ss.val)>>, "ok")
       ELSE IF se.ok THEN Did(set_segment_end(s, ZeroBased(se.val)), "text",
                              "set_segment_end", <<ZeroBased(se.val)>>, "ok")
       ELSE IF mt.ok THEN Did(render_motion_color(s, mt.val[1], mt.val[2], mt.val[3]), "text",
                              "render_motion_color", mt.val, "ok")
       ELSE Did(s, "text", "none", <<>>, "unrecognized")
       : hs \in {parse_prefixed_float(buffer, kH_SET)}, bs \in {parse_prefixed_float(buffer, kB_SET)},
         ha \in {parse_prefixed_float(buffer, kH)}, ba \in {parse_prefixed_float(buffer, kB)},
         ss \in {parse_segment_command(buffer, kSEG_START)}, se \in {parse_segment_command(buffer, kSEG_END)},
         mt \in {parse_motion_triplet(buffer)} })
    : buffer \in {CopyToBuffer(packet)} })

\* main.c
handle_motion_packet_pico(s, packet) ==
  The({ The({
       IF strncmp_eq(buffer, kRESET)
           THEN Did(reset_system(s), "text", "reset_system", <<>>, "ok")
       ELSE IF hs.ok THEN Did(set_hue(s, hs.val), "text", "set_hue", <<hs.val>>, "ok")
       ELSE IF bs.ok THEN Did(set_brightness(s, bs.val), "text", "set_brightness", <<bs.val>>, "ok")
       ELSE IF ha.ok THEN Did(adjust_hue(s, ha.val), "text", "adjust_hue", <<ha.val>>, "ok")
       ELSE IF ba.ok THEN Did(adjust_brightness(s, ba.val), "text", "adjust_brightness", <<ba.val>>, "ok")
       ELSE IF ss.ok THEN Did(set_segment_start(s, ZeroBased(ss.val)), "text",
                              "set_segment_start", <<ZeroBased(ss.val)>>, "ok")
       ELSE IF se.ok THEN Did(set_segment_end(s, ZeroBased(se.val)), "text",
                              "set_segment_end", <<ZeroBased(se.val)>>, "ok")
       ELSE IF mt.ok THEN Did(render_motion_color(s, mt.val[1], mt.val[2], mt.val[3]), "text",
                              "render_motion_color", mt.val, "ok")
       ELSE Did(s, "text", "none", <<>>, "unrecognized")
       : hs \in {sscanf_f(buffer, kH_SET)}, bs \in {sscanf_f(buffer, kB_SET)},
         ha \in {sscanf_f(buffer, kH)}, ba \in {sscanf_f(buffer, kB)},
         ss \in {sscanf_lu(buffer, kSEG_START)}, se \in {sscanf_lu(buffer, kSEG_END)},
         mt \in {sscanf_fff(buffer)} })
    : buffer \in {CopyToBuffer(packet)} })

----------------------------------------------------------------------------
(* Frame decoder (part_004) *)

\* const uint16_t end = start + length;
U16(n) == n % 65536

\* the pixels after one run
apply_frame_run(px0, start, length, r, g, b) ==
    The({ IF length = 0 THEN px
          ELSE Stored([i \in DOMAIN px |->
                   IF i >= start /\ i < end /\ i < kLedCount THEN color ELSE px[i]])
          : px \in {px0}, end \in {U16(start + length)}, color \in {Color(r, g, b)} })

\* the seven bytes of a run at `offset`
frame_run_at(data, offset) ==
    [start |-> U16(At(data, offset) + At(data, offset + 1) * 256),
     run_length |-> U16(At(data, offset + 2) + At(data, offset + 3) * 256),
     r |-> At(data, offset + 4),
     g |-> At(data, offset + 5),
     b |-> At(data, offset + 6)]

\* the pixels after iterations lo .. hi - 1 of the run loop, in order (the
\* range is halved so that a long frame is evaluated without deep nesting)
RECURSIVE frame_span(_, _, _, _)
frame_span(px0, data, lo, hi) ==
    IF hi <= lo THEN px0
    ELSE IF hi = lo + 1
        THEN The({ apply_frame_run(px0, run.start, run.run_length, run.r, run.g, run.b)
                   : run \in {frame_run_at(data, 3 + 7 * lo)} })
    ELSE The({ frame_span(px, data, lo + (hi - lo) \div 2, hi)
               : px \in {frame_span(px0, data, lo, lo + (hi - lo) \div 2)} })

\* the run loop: pixels, number of runs applied, whether it broke off, and the
\* (start, run_length, r, g, b) it read for each run, in order. It runs while
\* i < run_count and offset + 7 <= length, with offset = 3 + 7 * i.
frame_runs(px0, data, offset0, i0, run_count) ==
    The({ [px |-> frame_span(px0, data, i0, n),
           applied |-> n,
           truncated |-> n < run_count,
           runs |-> [k \in 1..(n - i0) |->
                       The({ <<run.start, run.run_length, run.r, run.g, run.b>>
                             : run \in {frame_run_at(data, offset0 + 7 * (k - 1))} })]]
          : n \in {Max0(Min(run_count, (Len(data) - offset0) \div 7 + i0), i0)} })

\* mutant: a frame that breaks off is dropped whole
parse_frame_packet_all_or_nothing(s, data) ==
    IF Len(data) < 3 THEN [handled |-> FALSE, s |-> s]
    ELSE IF At(data, 0) # kFrameCommandId THEN [handled |-> FALSE, s |-> s]
    ELSE IF At(data, 1) # 1
         THEN [handled |-> TRUE,
               s |-> Did(s, "frame", "parse_frame_packet", <<0>>, "unsupported")]
    ELSE The({ [handled |-> TRUE,
                s |-> Did([s EXCEPT !.pixels = IF res.truncated THEN @ ELSE res.px],
                          "frame", "parse_frame_packet", <<res.applied>>,
                          IF res.truncated THEN "truncated" ELSE "ok")]
               : res \in {frame_runs(s.pixels, data, 3, 0, At(data, 2))} })

\* mutant: the version byte is not looked at
parse_frame_packet_any_version(s, data) ==
    IF Len(data) < 3 THEN [handled |-> FALSE, s |-> s]
    ELSE IF At(data, 0) # kFrameCommandId THEN [handled |-> FALSE, s |-> s]
    ELSE The({ [handled |-> TRUE,
                s |-> Did([s EXCEPT !.pixels = res.px], "frame", "parse_frame_packet",
                          <<res.applied>>,
                          IF res.truncated THEN "truncated" ELSE "ok")]
               : res \in {frame_runs(s.pixels, data, 3, 0, At(data, 2))} })

\* mutant: a decoded frame also widens the segment to the whole strip
parse_frame_packet_full_segment(s, data) ==
    IF Len(data) < 3 THEN [handled |-> FALSE, s |-> s]
    ELSE IF At(data, 0) # kFrameCommandId THEN [handled |-> FALSE, s |-> s]
    ELSE IF At(data, 1) # 1
         THEN [handled |-> TRUE,
               s |-> Did(s, "frame", "parse_frame_packet", <<0>>, "unsupported")]
    ELSE The({ [handled |-> TRUE,
                s |-> Did([s EXCEPT !.pixels = res.px, !.segment_start = 0,
                                    !.segment_end = kLedCount - 1],
                          "frame", "parse_frame_packet", <<res.applied>>,
                          IF res.truncated THEN "truncated" ELSE "ok")]
               : res \in {frame_runs(s.pixels, data, 3, 0, At(data, 2))} })

\* mutant: the length test lets a two-byte payload through
parse_frame_packet_short(s, data) ==
    IF Len(data) < 2 THEN [handled |-> FALSE, s |-> s]
    ELSE IF At(data, 0) # kFrameCommandId THEN [handled |-> FALSE, s |-> s]
    ELSE IF At(data, 1) # 1
         THEN [handled |-> TRUE,
               s |-> Did(s, "frame", "parse_frame_packet", <<0>>, "unsupported")]
    ELSE The({ [handled |-> TRUE,
                s |-> Did([s EXCEPT !.pixels = res.px], "frame", "parse_frame_packet",
                          <<res.applied>>,
                          IF res.truncated THEN "truncated" ELSE "ok")]
               : res \in {frame_runs(s.pixels, data, 3, 0, At(data, 2))} })

\* [handled, s]: whether the payload was a frame, and the state after it
parse_frame_packet(s, data) ==
    IF Len(data) < 3 THEN [handled |-> FALSE, s |-> s]
    ELSE IF At(data, 0) # kFrameCommandId THEN [handled |-> FALSE, s |-> s]
    ELSE IF At(data, 1) # 1
         THEN [handled |-> TRUE,
               s |-> Did(s, "frame", "parse_frame_packet", <<0>>, "unsupported")]
    ELSE The({ [handled |-> TRUE,
                s |-> Did([s EXCEPT !.pixels = res.px], "frame", "parse_frame_packet",
                          <<res.applied>>,
                          IF res.truncated THEN "truncated" ELSE "ok")]
               : res \in {frame_runs(s.pixels, data, 3, 0, At(data, 2))} })

----------------------------------------------------------------------------
(* Transport callbacks: one received payload, handled to completion *)

\* mutant: the frame decoder is given the bounded copy made for the text parser
gattWriteCallback_bounded(s, buffer) ==
    IF Len(buffer) = 0 THEN Did(s, "dropped", "none", <<>>, "empty")
    ELSE The({ IF f.handled THEN f.s
               ELSE handle_motion_packet(s, CopyToBuffer(buffer))
               : f \in {parse_frame_packet(s, CopyToBuffer(buffer))} })

\* part_004
gattWriteCallback(s, buffer) ==
    IF Len(buffer) = 0 THEN Did(s, "dropped", "none", <<>>, "empty")
    ELSE The({ IF f.handled THEN f.s
               ELSE handle_motion_packet(s, CopyToBuffer(buffer))
               : f \in {parse_frame_packet(s, buffer)} })

\* main.c
ble_command_write_callback(s, buffer) ==
    IF Len(buffer) = 0 THEN Did(s, "dropped", "none", <<>>, "empty")
    ELSE handle_motion_packet_pico(s, CopyToBuffer(buffer))

Callback(s, payload) ==
    IF s.build = "pico" THEN ble_command_write_callback(s, payload)
                        ELSE gattWriteCallback(s, payload)

----------------------------------------------------------------------------
(* Payloads as the apps author them *)

RECURSIVE Dec(_)
Dec(n) == IF n < 10 THEN <<48 + n>> ELSE Dec(n \div 10) \o <<48 + (n % 10)>>

\* a number of ticks in decimal notation, three fraction digits when needed
FmtFloat(t) ==
    LET a == Abs(t)
        f == a % SCALE
    IN (IF t < 0 THEN <<45>> ELSE <<>>) \o Dec(a \div SCALE) \o
       (IF f = 0 THEN <<>>
        ELSE <<46, 48 + (f \div 100), 48 + ((f \div 10) % 10), 48 + (f % 10)>>)

\* mutant: the high byte first
littleEndianBytes_swapped(v) == <<(v \div 256) % 256, v % 256>>

\* UInt16.littleEndianBytes
littleEndianBytes(v) == <<v % 256, (v \div 256) % 256>>

RunBytes(run) ==
    littleEndianBytes(run.start) \o littleEndianBytes(run.length) \o
    <<run.color[1], run.color[2], run.color[3]>>

\* the bytes of the runs, one after the other
RunsBytes(runs) ==
    [j \in 1..(7 * Len(runs)) |-> RunBytes(runs[((j - 1) \div 7) + 1])[((j - 1) % 7) + 1]]

\* a frame header declaring `count` runs, followed by the bytes of `runs`
FrameBytes(version, count, runs) == <<kFrameCommandId, version, count>> \o RunsBytes(runs)

\* LEDFrame.dataPayload
dataPayload(runs) == FrameBytes(1, Len(runs), runs)

Run(start, length, color) == [start |-> start, length |-> length, color |-> color]

Red == <<255, 0, 0>>
Green == <<0, 255, 0>>
Blue == <<0, 0, 255>>

HSetPayload(x) == kH_SET \o FmtFloat(x)
BSetPayload(p) == kB_SET \o FmtFloat(p)
HPayload(d) == kH \o FmtFloat(d)
BPayload(d) == kB \o FmtFloat(d)
SegStartPayload(v) == kSEG_START \o Dec(v)
SegEndPayload(v) == kSEG_END \o Dec(v)
MotionPayload(m) == FmtFloat(m[1]) \o <<44>> \o FmtFloat(m[2]) \o <<44>> \o FmtFloat(m[3])

----------------------------------------------------------------------------
(* State machine *)

State ==
    [build |-> build, segment_start |-> segment_start, segment_end |-> segment_end,
     current_hue |-> current_hue, current_saturation |-> current_saturation,
     current_brightness |-> current_brightness, hue_offset |-> hue_offset,
     brightness_offset |-> brightness_offset, pixels |-> pixels,
     adjusted_hue |-> adjusted_hue, adjusted_brightness |-> adjusted_brightness,
     halted |-> halted, reset_supported |-> reset_supported, last |-> last, prev |-> prev, hue_log |-> hue_log,
     ncmds |-> ncmds]

Becomes(s) ==
    /\ build' = s.build
    /\ segment_start' = s.segment_start
    /\ segment_end' = s.segment_end
    /\ current_hue' = s.current_hue
    /\ current_saturation' = s.current_saturation
    /\ current_brightness' = s.current_brightness
    /\ hue_offset' = s.hue_offset
    /\ brightness_offset' = s.brightness_offset
    /\ pixels' = s.pixels
    /\ adjusted_hue' = s.adjusted_hue
    /\ adjusted_brightness' = s.adjusted_brightness
    /\ halted' = s.halted
    /\ reset_supported' = s.reset_supported
    /\ last' = s.last
    /\ prev' = s.prev
    /\ hue_log' = s.hue_log
    /\ ncmds' = s.ncmds

\* no function has been applied on its own
NoProbe == [fn |-> "none", arg |-> <<>>, out |-> <<>>]

\* main.c always has the watchdog; part_004 has a reset on RP2040 (or where
\* NVIC_SystemReset is a macro) and none elsewhere
ResetSupport(b) == IF b = "pico" THEN {TRUE} ELSE {TRUE, FALSE}

\* the globals as initialised, then the render main()/setup() performs
Startup(b, r) ==
    render_color_from_state(
        [build |-> b, segment_start |-> 0, segment_end |-> LedCount(b) - 1,
         current_hue |-> DefaultHue(b), current_saturation |-> DefaultSaturation(b),
         current_brightness |-> DefaultBrightness(b), hue_offset |-> 0,
         brightness_offset |-> 0,
         pixels |-> [i \in 0..(LedCount(b) - 1) |-> Off],
         adjusted_hue |-> 0, adjusted_brightness |-> 0,
         halted |-> FALSE, reset_supported |-> r,
         last |-> [dispatch |-> "none", handler |-> "none", arg |-> <<>>, note |-> "startup"],
         prev |-> [dispatch |-> "none", handler |-> "none", arg |-> <<>>, note |-> "startup"],
         hue_log |-> <<>>,
         ncmds |-> 0])

(* The UDP app's connection manager (MotionUDPManager) and the network      *)
(* connections it creates.  Blocks on connectionQueue run one at a time, in  *)
(* the order they were submitted.                                            *)

MaxUdpEvents == 5

\* connections the manager may create
MaxConnections == 3

\* connection == nil
NilConnection == 0

\* a block submitted to connectionQueue
Block(op, conn, arg) == [op |-> op, conn |-> conn, arg |-> arg]

\* the fields of the manager as initialised, no connection created yet
UdpInit ==
    [started |-> FALSE,
     connection |-> NilConnection,
     connectionPending |-> FALSE,
     connectionReady |-> FALSE,
     pendingResetRequest |-> FALSE,
     queue |-> <<>>,                                  \* connectionQueue
     timers |-> 0,                                    \* asyncAfter blocks not yet due
     net |-> [c \in 1..MaxConnections |-> "none"],    \* each NWConnection's state
     created |-> 0,                                   \* connections created so far
     sent |-> <<>>,                         \* datagrams handed to send: <<connection, payload>>
     awaiting |-> FALSE,         \* a failure was handled and no connection set up since
     reset_owed |-> NilConnection,   \* the connection whose ready event took the reset request
     by |-> NilConnection,       \* the connection whose callback ran in the last step
     restarts |-> 0,
     resets |-> 0,               \* calls of requestResetAndReconnect
     events |-> 0]

\* connectionQueue.async { ... }
Submit(u, block) == [u EXCEPT !.queue = Append(@, block)]

\* startConnectionIfNeeded(delay:)
startConnectionIfNeeded(u) ==
    IF u.connectionPending THEN u
    ELSE [u EXCEPT !.connectionPending = TRUE, !.timers = @ + 1]

\* setupConnection(): a new NWConnection is stored and started
setupConnection(u) ==
    [u EXCEPT !.connection = u.created + 1,
              !.created = @ + 1,
              !.net[u.created + 1] = "preparing",
              !.awaiting = FALSE]

\* the block startConnectionIfNeeded schedules
TimerBlock(u0) ==
    The({ IF u.connection # NilConnection THEN u ELSE setupConnection(u)
          : u \in {[u0 EXCEPT !.connectionPending = FALSE]} })

\* NWConnection.cancel()
Cancel(u, c) ==
    IF c # NilConnection /\ u.net[c] \in {"preparing", "ready", "waiting"}
    THEN [u EXCEPT !.net[c] = "cancelling"]
    ELSE u

\* the block restartConnection submits
RestartBlock(u) ==
    [Cancel(u, u.connection) EXCEPT !.connection = NilConnection,
                                    !.connectionReady = FALSE]

\* sendUDP(_:), called with the manager's fields as they are
sendUDP(u, payload) ==
    IF u.connectionReady /\ u.connection # NilConnection
    THEN Submit(u, Block("send", u.connection, <<payload>>))
    ELSE u

\* the block sendUDP submits; the completion is called with sendError or nil
SendBlock(u, c, payload, sendError) ==
    IF u.connectionReady /\ u.connection = c
    THEN Submit([u EXCEPT !.sent = Append(@, <<c, payload>>)],
                Block("sendDone", c, <<payload, sendError>>))
    ELSE u

\* mutant: a send error only clears connectionReady
SendCompletion_no_retry(u, c, payload, sendError) ==
    IF sendError
    THEN [u EXCEPT !.connectionReady = FALSE]
    ELSE u

\* the completion of connection.send
SendCompletion(u, c, payload, sendError) ==
    IF sendError
    THEN startConnectionIfNeeded([u EXCEPT !.connectionReady = FALSE, !.awaiting = TRUE])
    ELSE u

\* connection.stateUpdateHandler of connection c, called with `state`
stateUpdateHandler(u, c, state) ==
    IF state = "ready"
    THEN IF u.pendingResetRequest
         THEN sendUDP([u EXCEPT !.connectionReady = TRUE,
                                !.pendingResetRequest = FALSE,
                                !.reset_owed = c], "RESET")
         ELSE [u EXCEPT !.connectionReady = TRUE]
    ELSE IF state = "waiting" THEN [u EXCEPT !.connectionReady = FALSE]
    ELSE IF state = "failed"
         THEN startConnectionIfNeeded([u EXCEPT !.connectionReady = FALSE,
                                                !.awaiting = TRUE])
    ELSE IF state = "cancelled" THEN [u EXCEPT !.connectionReady = FALSE]
    ELSE u

\* restartConnection()
restartConnection(u) == startConnectionIfNeeded(Submit(u, Block("restart", NilConnection, <<>>)))

\* requestResetAndReconnect()
requestResetAndReconnect(u) ==
    restartConnection(Submit(u, Block("setPending", NilConnection, <<>>)))

\* one block of connectionQueue, run to its end
RunOne(u, b, sendError) ==
    IF b.op = "setPending" THEN [u EXCEPT !.pendingResetRequest = TRUE]
    ELSE IF b.op = "restart" THEN RestartBlock(u)
    ELSE IF b.op = "timer" THEN TimerBlock(u)
    ELSE IF b.op = "state" THEN stateUpdateHandler(u, b.conn, b.arg[1])
    ELSE IF b.op = "send" THEN SendBlock(u, b.conn, b.arg[1], sendError)
    ELSE SendCompletion(u, b.conn, b.arg[1], b.arg[2])

(* The UDP access-point firmware (motion controller): main(), the network *)
(* stack it brings up and the UDP listener                                 *)

MaxApDatagrams == 2

\* ws2812_write_color(0x00102040) in main
ApStartupColor == 1056832

\* before main(): nothing initialised, nothing registered
ApInit ==
    [pc |-> "main",
     cyw43 |-> FALSE,           \* cyw43_arch_init succeeded and no deinit since
     dhcp |-> FALSE,            \* dhcp_server_init done and no deinit since
     listener |-> FALSE,        \* udp_recv has registered udp_motion_recv
     led |-> 0,                 \* the word last written to the LEDs
     received |-> 0,
     exit |-> 0]

\* render_motion_color of the access-point firmware: the word written
ap_render_motion_color(pitch, roll, yaw) ==
    LET norm_roll == NormFull(roll)
        norm_yaw == NormFull(yaw)
        norm_pitch == NormHalf(pitch)
        hue == fmodf(norm_yaw * 360 + norm_roll * 120, 360 * SCALE)
        saturation == clampf((35 * SCALE) \div 100 + Quot(norm_roll * 65, 100),
                             (2 * SCALE) \div 10, SCALE)
        brightness == clampf((2 * SCALE) \div 10 + Quot(norm_pitch * 8, 10),
                             (5 * SCALE) \div 100, SCALE)
    IN The({ rgb[2] * 65536 + rgb[1] * 256 + rgb[3]
             : rgb \in {hsv_to_rgb(hue, saturation, brightness)} })

(* The BLE apps' manager: connections, service discovery and its retries *)

MaxBleConnections == 2

\* BLEManager after init: scanning, no peripheral, serviceDiscoveryAttempts = 0
BleInit ==
    [status |-> "scanning",
     connected |-> FALSE,
     serviceDiscoveryAttempts |-> 0,
     timers |-> <<>>,           \* pending asyncAfter blocks: the connection that
                                \* scheduled each
     outstanding |-> 0,         \* discoverServices requests not yet answered
     conn |-> 0,                \* connections so far
     calls |-> 0,               \* discoverServices calls in this connection
     scheduled |-> 0,           \* retries scheduled in this connection
     failures |-> 0,            \* failed discoveries in this connection
     characteristics |-> FALSE, \* discoverCharacteristics was called
     by |-> "none"]

\* peripheral.discoverServices(nil): a request on a connected peripheral is
\* answered later by didDiscoverServices; on a disconnected one it is dropped
discoverServices(b) ==
    IF b.connected
    THEN [b EXCEPT !.outstanding = @ + 1, !.calls = @ + 1]
    ELSE b

\* centralManager(_:didConnect:)
didConnect(b) ==
    discoverServices([b EXCEPT !.status = "discovering services",
                               !.connected = TRUE,
                               !.serviceDiscoveryAttempts = 0,
                               !.conn = @ + 1,
                               !.calls = 0, !.scheduled = 0, !.failures = 0,
                               !.characteristics = FALSE])

scheduleServiceDiscovery_six_retries(b) ==
    LET b1 == [b EXCEPT !.serviceDiscoveryAttempts = @ + 1]
    IN IF ~(b1.serviceDiscoveryAttempts <= 6)
       THEN [b1 EXCEPT !.status = "service not found"]
       ELSE [b1 EXCEPT !.timers = Append(@, b.conn), !.scheduled = @ + 1]

\* scheduleServiceDiscovery(_:)
scheduleServiceDiscovery(b) ==
    LET b1 == [b EXCEPT !.serviceDiscoveryAttempts = @ + 1]
    IN IF ~(b1.serviceDiscoveryAttempts <= 5)
       THEN [b1 EXCEPT !.status = "service not found"]
       ELSE [b1 EXCEPT !.timers = Append(@, b.conn), !.scheduled = @ + 1]

DiscoveryOutcomes == {"error", "nil_services", "service_missing", "service_found"}

\* peripheral(_:didDiscoverServices:)
didDiscoverServices(b, outcome) ==
    LET b0 == [b EXCEPT !.outstanding = @ - 1]
    IN CASE outcome = "error" ->
              scheduleServiceDiscovery([b0 EXCEPT !.status = "service discovery error",
                                                  !.failures = @ + 1])
         [] outcome = "nil_services" ->
              scheduleServiceDiscovery([b0 EXCEPT !.status = "service discovery returned empty list",
                                                  !.failures = @ + 1])
         [] outcome = "service_missing" ->
              scheduleServiceDiscovery([b0 EXCEPT !.status = "services",
                                                  !.failures = @ + 1])
         [] OTHER ->
              [b0 EXCEPT !.status = "services", !.characteristics = TRUE]

\* centralManager(_:didDisconnectPeripheral:error:); requests die with the link
didDisconnectPeripheral(b) ==
    [b EXCEPT !.status = "disconnected", !.connected = FALSE, !.outstanding = 0]

(* The UDP app's hold-to-adjust state: the two setters, the state queue and *)
(* the motion handler that reads it                                        *)

MaxAdjustCalls == 3
MaxMotionTicks == 2

\* an optional Double: <<>> is nil, <<z>> holds z (in ticks)
NilDouble == <<>>

\* MotionUDPController after init
AdjInit ==
    [hueHoldActive |-> FALSE,
     brightnessHoldActive |-> FALSE,
     adjustmentMode |-> "none",
     huePressed |-> FALSE,
     brightnessPressed |-> FALSE,
     lastBrightnessZ |-> NilDouble,
     queue |-> <<>>,            \* blocks waiting on adjustmentStateQueue
     motion |-> <<>>,           \* <<z>>: the motion handler read .brightness and
                                \* has not yet called brightnessDelta(for: z)
     payload |-> <<>>,          \* the last adjustment payload handed to sendUDP
     calls |-> 0,
     ticks |-> 0]

\* the block updateAdjustmentState puts on adjustmentStateQueue; an argument
\* is "nil", "true" or "false"
updateAdjustmentState_block(a, hue, brightness) ==
    LET a1 == IF hue # "nil" THEN [a EXCEPT !.huePressed = (hue = "true")] ELSE a
        a2 == IF brightness # "nil"
              THEN [a1 EXCEPT !.brightnessPressed = (brightness = "true"),
                              !.lastBrightnessZ =
                                  IF brightness = "true" THEN NilDouble ELSE @]
              ELSE a1
        a3 == [a2 EXCEPT !.adjustmentMode =
                             IF a2.huePressed THEN "hue"
                             ELSE IF a2.brightnessPressed THEN "brightness"
                             ELSE "none"]
    IN IF ~a3.brightnessPressed
       THEN [a3 EXCEPT !.lastBrightnessZ = NilDouble]
       ELSE a3

\* updateAdjustmentState(hue:brightness:): adjustmentStateQueue.async
updateAdjustmentState(a, hue, brightness) ==
    [a EXCEPT !.queue = Append(@, <<hue, brightness>>)]

OptBool(b) == IF b THEN "true" ELSE "false"

\* setHueAdjustmentActive(_:)
setHueAdjustmentActive(a, isActive) ==
    updateAdjustmentState(
        [a EXCEPT !.hueHoldActive = isActive,
                  !.brightnessHoldActive = IF isActive THEN FALSE ELSE @],
        OptBool(isActive), IF isActive THEN "false" ELSE "nil")

\* setBrightnessAdjustmentActive(_:)
setBrightnessAdjustmentActive(a, isActive) ==
    updateAdjustmentState(
        [a EXCEPT !.brightnessHoldActive = isActive,
                  !.hueHoldActive = IF isActive THEN FALSE ELSE @],
        IF isActive THEN "false" ELSE "nil", OptBool(isActive))

\* brightnessDelta(for:): the delta, and lastBrightnessZ = gravityZ
brightnessDelta(a, gravityZ) ==
    IF a.lastBrightnessZ # NilDouble
    THEN Quot((gravityZ - a.lastBrightnessZ[1]) * (-7), 10)
    ELSE 0

Init ==
    \E b \in Builds :
      \E r \in ResetSupport(b) :
        \E s \in {Startup(b, r)} :
           /\ build = s.build
           /\ segment_start = s.segment_start
           /\ segment_end = s.segment_end
           /\ current_hue = s.current_hue
           /\ current_saturation = s.current_saturation
           /\ current_brightness = s.current_brightness
           /\ hue_offset = s.hue_offset
           /\ brightness_offset = s.brightness_offset
           /\ pixels = s.pixels
           /\ adjusted_hue = s.adjusted_hue
           /\ adjusted_brightness = s.adjusted_brightness
           /\ halted = s.halted
           /\ reset_supported = s.reset_supported
           /\ last = s.last
           /\ prev = s.prev
           /\ hue_log = s.hue_log
           /\ ncmds = s.ncmds
           /\ last_payload = <<>>
           /\ probe = NoProbe
           /\ inbox = <<>>
           /\ active = <<>>
           /\ seg_app = [kind |-> "none", segmentStart |-> 1, segmentEnd |-> maxLights,
                        sent |-> <<>>]
           /\ udp = UdpInit
           /\ ap = ApInit
           /\ ble = BleInit
           /\ adj = AdjInit

\* the transport delivers one payload; the callback runs to completion
Receive(payload, bound) ==
    /\ ~halted
    /\ ncmds < bound
    /\ \E p \in {payload} :
         \E s \in {Callback(State, p)} :
             /\ Becomes(s)
             /\ last_payload' = p
             /\ UNCHANGED <<probe, inbox, active>>
             /\ UNCHANGED AppVars

\* arguments, in ticks
HueArgs == {90 * SCALE, 360 * SCALE, -90 * SCALE - SCALE \div 2}
PctArgs == {-10 * SCALE, 20 * SCALE, 150 * SCALE}
HueDeltas == {0, 30 * SCALE, -400 * SCALE}
BriDeltas == {SCALE \div 10, -2 * SCALE}
SegStartArgs == {0, 11, 400}
SegEndArgs == {3, 400}
MotionArgs == {<<SCALE, -2 * SCALE, 3 * SCALE>>}
JunkPayloads ==
    { T(<<"g","a","r","b","a","g","e">>),
      kH_SET \o T(<<"n","o","t","a","n","u","m","b","e","r">>),
      <<kFrameCommandId, 1>> }
\* run lists of the frames received: one run, and several overlapping runs
SingleRunFrames == { <<Run(0, 3, Red)>>, <<Run(1, 65535, Blue)>> }
MultiRunFrames ==
    { <<Run(1, 4, Green), Run(2, 400, Blue)>>,
      <<Run(0, 3, Red), Run(1, 65535, Blue)>> }
FramePayloads ==
    { dataPayload(runs) : runs \in SingleRunFrames \cup MultiRunFrames } \cup
    { FrameBytes(2, 1, <<Run(0, 3, Red)>>),
      FrameBytes(1, 2, <<Run(5, 2, Red)>>) }

RecvHSet == \E x \in HueArgs : Receive(HSetPayload(x), MaxCmds)
RecvBSet == \E p \in PctArgs : Receive(BSetPayload(p), MaxCmds)
RecvH == \E d \in HueDeltas : Receive(HPayload(d), MaxCmds)
RecvB == \E d \in BriDeltas : Receive(BPayload(d), MaxCmds)
RecvSegStart == \E v \in SegStartArgs : Receive(SegStartPayload(v), MaxCmds)
RecvSegEnd == \E v \in SegEndArgs : Receive(SegEndPayload(v), MaxCmds)
RecvMotion == \E m \in MotionArgs : Receive(MotionPayload(m), MaxCmds)
RecvReset == Receive(kRESET, MaxCmds)
RecvJunk == \E p \in JunkPayloads : Receive(p, MaxCmds)
RecvEmpty == Receive(<<>>, MaxCmds)
RecvFrame == \E p \in FramePayloads : Receive(p, MaxCmds)

Next ==
    \/ RecvHSet
    \/ RecvBSet
    \/ RecvH
    \/ RecvB
    \/ RecvSegStart
    \/ RecvSegEnd
    \/ RecvMotion
    \/ RecvReset
    \/ RecvJunk
    \/ RecvEmpty
    \/ RecvFrame

Spec == Init /\ [][Next]_vars

\* Segment commands alone, over every index of the short strip and the ends
\* and middle of the long one (command values are 1-based)
SegValues(b) ==
    IF b = "pico" THEN 0..(NUM_LEDS + 1) \cup {65537}
    ELSE {0, 1, 2, kLedCount \div 2, kLedCount - 1, kLedCount, kLedCount + 1, 65537}

SegCmdStart == \E v \in SegValues(build) : Receive(SegStartPayload(v), MaxSegCmds)
SegCmdEnd == \E v \in SegValues(build) : Receive(SegEndPayload(v), MaxSegCmds)

SegNext ==
    \/ SegCmdStart
    \/ SegCmdEnd

SegSpec == Init /\ [][SegNext]_vars

\* Frames of every kind, between the text commands that render from the
\* colour state and the segment.
\* A frame that breaks off: the run count it declares, the complete runs it
\* holds, and the bytes of the incomplete run after them
TruncatedFrames ==
    { [declared |-> 2, runs |-> <<Run(5, 2, Red)>>, tail |-> <<>>],
      [declared |-> 3, runs |-> <<Run(0, 3, Red), Run(1, 65535, Blue)>>,
       tail |-> <<7, 0, 1, 0, 9, 9>>],
      [declared |-> 1, runs |-> <<>>, tail |-> <<0, 0, 3>>],
      [declared |-> 255, runs |-> <<Run(298, 5, Green)>>, tail |-> <<1>>] }

TruncatedPayload(f) == FrameBytes(1, f.declared, f.runs) \o f.tail

UnsupportedFrames ==
    { FrameBytes(2, 1, <<Run(0, 3, Red)>>),
      FrameBytes(0, 1, <<Run(0, 3, Red)>>),
      <<kFrameCommandId, 255, 0>> }

FrameContext ==
    { HSetPayload(90 * SCALE), BSetPayload(20 * SCALE), HPayload(30 * SCALE),
      BPayload(SCALE \div 10), SegStartPayload(11), SegEndPayload(14),
      MotionPayload(<<SCALE, -2 * SCALE, 3 * SCALE>>) }

FrameWhole == \E p \in FramePayloads : Receive(p, MaxFrameCmds)
FrameTruncated == \E f \in TruncatedFrames : Receive(TruncatedPayload(f), MaxFrameCmds)
FrameUnsupported == \E p \in UnsupportedFrames : Receive(p, MaxFrameCmds)
FrameContextCmd == \E p \in FrameContext : Receive(p, MaxFrameCmds)

FrameNext ==
    \/ FrameWhole
    \/ FrameTruncated
    \/ FrameUnsupported
    \/ FrameContextCmd

FrameSpec == Init /\ [][FrameNext]_vars

\* Text the parser has no rule for, RESET in several spellings, and a few
\* well-formed commands around them
MalformedPayloads ==
    { T(<<"g","a","r","b","a","g","e">>),
      kH_SET \o T(<<"n","o","t","a","n","u","m","b","e","r">>),
      kH_SET,
      T(<<"H","_","S","E","T">>),
      kB_SET \o T(<<"x">>),
      kH,
      kB \o T(<<"-">>),
      kSEG_START,
      kSEG_END \o T(<<"x">>),
      T(<<"1",".","0",",","2",".","0">>),
      T(<<"1",".","0",",","2",".","0",",","x">>) }

ResetPayloads ==
    { kRESET,
      kRESET \o T(<<"x">>),
      kRESET \o T(<<",","1">>),
      kRESET \o HSetPayload(90 * SCALE) }

ParserContext ==
    { HSetPayload(90 * SCALE), HPayload(30 * SCALE), BSetPayload(20 * SCALE),
      SegStartPayload(11), dataPayload(<<Run(0, 3, Red)>>) }

ParserMalformed == \E p \in MalformedPayloads : Receive(p, MaxParserCmds)
ParserReset == \E p \in ResetPayloads : Receive(p, MaxParserCmds)
ParserContextCmd == \E p \in ParserContext : Receive(p, MaxParserCmds)

ParserNext ==
    \/ ParserMalformed
    \/ ParserReset
    \/ ParserContextCmd

ParserSpec == Init /\ [][ParserNext]_vars

(* Frames from the app's encoder to the firmware's decoder, whole *)

MaxCodecCmds == 2

\* a colour that differs from run to run and in its three bytes
Palette(k) == <<(k * 7) % 256, (255 - k) % 256, (k * 13 + 5) % 256>>

\* n runs of `width` pixels, `gap` pixels apart, from pixel `first` on
Stripe(n, first, width, gap) ==
    [k \in 1..n |-> Run(first + (k - 1) * (width + gap), width, Palette(k))]

\* run lists as the app builds them: in bounds, not overlapping, 1..255 runs
CodecRunLists ==
    { Stripe(1, 0, 300, 0), Stripe(1, 256, 44, 0), Stripe(2, 10, 5, 3),
      Stripe(17, 0, 3, 1), Stripe(18, 0, 16, 0), Stripe(19, 5, 2, 13),
      Stripe(255, 45, 1, 0) }

CodecFrame == \E runs \in CodecRunLists : Receive(dataPayload(runs), MaxCodecCmds)

CodecNext == CodecFrame

CodecSpec == Init /\ [][CodecNext]_vars

(* Text payloads longer than the parser's buffer *)

MaxTruncCmds == 2

\* n bytes c
Rep(c, n) == [i \in 1..n |-> c]

\* payloads of 128 bytes and more whose 127-byte prefix reads differently from
\* the whole (a number, a triplet or a segment index cut short) or the same
LongTextPayloads ==
    { kH_SET \o Rep(32, 120) \o T(<<"9","0">>),
      kH \o Rep(32, 123) \o T(<<"-","4","5">>),
      kB_SET \o T(<<"2","0">>) \o Rep(120, 130),
      kSEG_END \o Rep(32, 118) \o T(<<"1","2">>),
      T(<<"1",",">>) \o Rep(32, 123) \o T(<<"2",",","3">>),
      kRESET \o Rep(120, 125),
      Rep(103, 200) }

\* payloads of exactly 127 bytes, which fit
FittingTextPayloads ==
    { kH_SET \o Rep(32, 119) \o T(<<"9","0">>),
      T(<<"1",",">>) \o Rep(32, 122) \o T(<<"2",",","3">>) }

TruncContext == { HSetPayload(360 * SCALE), SegStartPayload(3) }

TruncLong == \E p \in LongTextPayloads : Receive(p, MaxTruncCmds)
TruncFitting == \E p \in FittingTextPayloads : Receive(p, MaxTruncCmds)
TruncContextCmd == \E p \in TruncContext : Receive(p, MaxTruncCmds)

TruncNext ==
    \/ TruncLong
    \/ TruncFitting
    \/ TruncContextCmd

TruncSpec == Init /\ [][TruncNext]_vars

(* Brightness commands *)

MaxBrightCmds == 3

BrightSetArgs == {20 * SCALE, 30 * SCALE}

\* deltas that saturate either way, and deltas no larger than MAX - MIN
BrightDeltas ==
    {5 * SCALE, -5 * SCALE, SCALE \div 10, -(SCALE \div 10),
     (3 * SCALE) \div 10, -((3 * SCALE) \div 10)}

BrightSet == \E p \in BrightSetArgs : Receive(BSetPayload(p), MaxBrightCmds)
BrightAdjust == \E d \in BrightDeltas : Receive(BPayload(d), MaxBrightCmds)

BrightNext ==
    \/ BrightSet
    \/ BrightAdjust

BrightSpec == Init /\ [][BrightNext]_vars

(* The run loop: writes arrive at any time and are dispatched one by one *)

MaxDispatchCmds == 4

DispatchPayloads ==
    { HSetPayload(90 * SCALE), HPayload(30 * SCALE), BPayload(SCALE \div 10),
      SegStartPayload(3) }

\* the radio receives a write, whatever the processor is doing
DispatchArrive ==
    /\ ~halted
    /\ ncmds + Len(inbox) + Len(active) < MaxDispatchCmds
    /\ \E p \in DispatchPayloads : inbox' = Append(inbox, p)
    /\ UNCHANGED <<build, segment_start, segment_end, current_hue, current_saturation,
                   current_brightness, hue_offset, brightness_offset, pixels,
                   adjusted_hue, adjusted_brightness, halted, reset_supported,
                   last_payload, last, prev, hue_log, ncmds, probe, active>>
    /\ UNCHANGED AppVars

\* mutant: a write is handed to the callback as soon as it arrives, whether
\* or not an invocation is in progress
DispatchEnter_reentrant ==
    /\ ~halted
    /\ inbox # <<>>
    /\ active' = <<Head(inbox)>> \o active
    /\ inbox' = Tail(inbox)
    /\ UNCHANGED <<build, segment_start, segment_end, current_hue, current_saturation,
                   current_brightness, hue_offset, brightness_offset, pixels,
                   adjusted_hue, adjusted_brightness, halted, reset_supported,
                   last_payload, last, prev, hue_log, ncmds, probe>>
    /\ UNCHANGED AppVars

\* btstack_run_loop_execute / BTstack.loop, the only caller of the callback,
\* takes the next write when the previous invocation has returned
DispatchEnter ==
    /\ ~halted
    /\ active = <<>>
    /\ inbox # <<>>
    /\ active' = <<Head(inbox)>> \o active
    /\ inbox' = Tail(inbox)
    /\ UNCHANGED <<build, segment_start, segment_end, current_hue, current_saturation,
                   current_brightness, hue_offset, brightness_offset, pixels,
                   adjusted_hue, adjusted_brightness, halted, reset_supported,
                   last_payload, last, prev, hue_log, ncmds, probe>>
    /\ UNCHANGED AppVars

\* the innermost invocation parses, applies and renders, and returns
DispatchReturn ==
    /\ active # <<>>
    /\ \E p \in {Head(active)} :
         \E s \in {Callback(State, p)} :
             /\ Becomes(s)
             /\ last_payload' = p
    /\ active' = Tail(active)
    /\ UNCHANGED <<probe, inbox>>
    /\ UNCHANGED AppVars

DispatchNext ==
    \/ DispatchArrive
    \/ DispatchEnter
    \/ DispatchReturn

DispatchSpec == Init /\ [][DispatchNext]_vars

(* The converter applied on its own *)

HsvHues ==
    {0, 30 * SCALE, 60 * SCALE - 1, 60 * SCALE, 90 * SCALE, 120 * SCALE, 180 * SCALE,
     240 * SCALE, 300 * SCALE, 360 * SCALE - 1, 360 * SCALE, -30 * SCALE, 725 * SCALE}

HsvSaturations == {0, SCALE \div 2, SCALE}

HsvValues == {0, SCALE \div 20, (392 * SCALE) \div 1000, SCALE \div 2, SCALE}

HsvApply ==
    /\ \E h \in HsvHues, s \in HsvSaturations, v \in HsvValues :
          probe' = [fn |-> "hsv_to_rgb", arg |-> <<h, s, v>>, out |-> hsv_to_rgb(h, s, v)]
    /\ UNCHANGED <<build, segment_start, segment_end, current_hue, current_saturation,
                   current_brightness, hue_offset, brightness_offset, pixels,
                   adjusted_hue, adjusted_brightness, halted, reset_supported,
                   last_payload, last, prev, hue_log, ncmds, inbox, active>>
    /\ UNCHANGED AppVars

HsvNext == HsvApply

HsvSpec == Init /\ [][HsvNext]_vars

(* Motion updates *)

MaxMotionCmds == 2

\* (pitch, roll, yaw) in ticks of a radian, inside and far outside the range
\* of an attitude
MotionTriples ==
    { <<0, 0, 0>>, <<-9000, -18000, -18000>>, <<9000, 18000, 18000>>,
      <<1571, 3142, -3142>>, <<-1571, 0, 3141>>, <<500, -1000, 2000>>,
      <<1000, -2000, 3000>>, <<0, 3141, 3141>>, <<-1000, 1000, 0>>,
      <<1570, -3141, 1000>> }

MotionContext == { HSetPayload(90 * SCALE), HPayload(-400 * SCALE), BPayload(SCALE \div 10) }

MotionUpdate == \E m \in MotionTriples : Receive(MotionPayload(m), MaxMotionCmds)
MotionContextCmd == \E p \in MotionContext : Receive(p, MaxMotionCmds)

MotionNext ==
    \/ MotionUpdate
    \/ MotionContextCmd

MotionSpec == Init /\ [][MotionNext]_vars

(* The BLE control apps' segment endpoints (hold-and-move and sliders) *)

MaxAppSegCmds == 3

\* the app's normalize(value, from: lower, to: upper), arguments in 1e-5 rad,
\* result in ticks
normalize(value, lower, upper) ==
    ((Min(Max0(value, lower), upper) - lower) * SCALE) \div (upper - lower)

\* max(1, min(maxLights, Int(round(normalized * Double(maxLights - 1))) + 1))
SegmentIndex(normalized) ==
    Max0(1, Min(maxLights, (((normalized * (maxLights - 1)) + (SCALE \div 2)) \div SCALE) + 1))

\* an app handler has set the displayed segment and written its commands,
\* which travel to the firmware in the order sent
AppSends(kind, start, end, payloads) ==
    /\ seg_app' = [kind |-> kind, segmentStart |-> start, segmentEnd |-> end,
                   sent |-> seg_app.sent \o payloads]
    /\ UNCHANGED <<FirmwareVars, udp, ap, ble, adj>>

\* the app in use talks to a 300-LED firmware that still accepts commands
AppInUse(kind) ==
    /\ build = "arduino"
    /\ ~halted
    /\ ncmds + Len(seg_app.sent) < MaxAppSegCmds
    /\ seg_app.kind \in {"none", kind}

\* the oldest command in flight reaches the firmware's write callback
AppDeliver ==
    /\ seg_app.sent # <<>>
    /\ ~halted
    /\ \E s \in {Callback(State, Head(seg_app.sent))} :
          /\ Becomes(s)
          /\ last_payload' = Head(seg_app.sent)
          /\ seg_app' = [seg_app EXCEPT !.sent = Tail(@)]
          /\ UNCHANGED <<probe, inbox, active, udp, ap, ble, adj>>

\* yaw and roll readings, in thousandths of a radian
HoldAngles == {-3142, -2111, -1062, 3142}

\* what a handler leaves: the displayed segment and the commands sent
Shown(start, end, sent) == [segmentStart |-> start, segmentEnd |-> end, sent |-> sent]

\* hold-and-move app: updateSegmentStart(with: yaw)
updateSegmentStart_hold(app, holdingStart, yaw) ==
    The({ IF ~holdingStart \/ index = app.segmentStart
          THEN Shown(app.segmentStart, app.segmentEnd, <<>>)
          ELSE IF app.segmentEnd < index
               THEN Shown(index, index, <<SegStartPayload(index), SegEndPayload(index)>>)
               ELSE Shown(index, app.segmentEnd, <<SegStartPayload(index)>>)
          : index \in {SegmentIndex(normalize(yaw * 100, -PI5, PI5))} })

\* hold-and-move app: updateSegmentEnd(with: roll)
updateSegmentEnd_hold(app, holdingEnd, roll) ==
    The({ IF ~holdingEnd \/ index = app.segmentEnd
          THEN Shown(app.segmentStart, app.segmentEnd, <<>>)
          ELSE IF app.segmentStart > index
               THEN Shown(index, index, <<SegEndPayload(index), SegStartPayload(index)>>)
               ELSE Shown(app.segmentStart, index, <<SegEndPayload(index)>>)
          : index \in {SegmentIndex(normalize(roll * 100, -PI5, PI5))} })

HoldUpdateStart ==
    /\ AppInUse("hold")
    /\ \E holdingStart \in BOOLEAN, yaw \in HoldAngles :
         \E o \in {updateSegmentStart_hold(seg_app, holdingStart, yaw)} :
            AppSends("hold", o.segmentStart, o.segmentEnd, o.sent)

HoldUpdateEnd ==
    /\ AppInUse("hold")
    /\ \E holdingEnd \in BOOLEAN, roll \in HoldAngles :
         \E o \in {updateSegmentEnd_hold(seg_app, holdingEnd, roll)} :
            AppSends("hold", o.segmentStart, o.segmentEnd, o.sent)

\* slider positions
SliderValues == {1, 50, 100, 300}

\* slider app: updateSegmentStart(_ value: Int)
updateSegmentStart_slider(app, value) ==
    The({ Shown(clamped, Max0(app.segmentEnd, clamped), <<SegStartPayload(clamped)>>)
          : clamped \in {Max0(1, Min(value, maxLights))} })

\* slider app: updateSegmentEnd(_ value: Int)
updateSegmentEnd_slider(app, value) ==
    The({ Shown(Min(app.segmentStart, clamped), clamped, <<SegEndPayload(clamped)>>)
          : clamped \in {Max0(1, Min(value, maxLights))} })

SliderUpdateStart ==
    /\ AppInUse("slider")
    /\ \E value \in SliderValues :
         \E o \in {updateSegmentStart_slider(seg_app, value)} :
            AppSends("slider", o.segmentStart, o.segmentEnd, o.sent)

SliderUpdateEnd ==
    /\ AppInUse("slider")
    /\ \E value \in SliderValues :
         \E o \in {updateSegmentEnd_slider(seg_app, value)} :
            AppSends("slider", o.segmentStart, o.segmentEnd, o.sent)

AppSegNext ==
    \/ HoldUpdateStart
    \/ HoldUpdateEnd
    \/ SliderUpdateStart
    \/ SliderUpdateEnd
    \/ AppDeliver

AppSegSpec == Init /\ [][AppSegNext]_vars

(* The frame-authoring app: run lists of the frames it sends *)

MaxAuthorCmds == 2

\* private let rainbowLength: Double = 300
rainbowLength == 300

\* let maxRainbowRuns = 50
maxRainbowRuns == 50

\* UInt16 arithmetic wraps (&+) at 2^16
UInt16Wrap(v) == v % 65536

\* byte(_:) inside hsvToRGB: UInt8(clamping: Int(((value + m) * 255.0).rounded()))
byte(t) == Max0(0, Min(255, ((t * 255) + (SCALE \div 2)) \div SCALE))

\* the app's hsvToRGB(hue:saturation:value:), arguments in ticks
hsvToRGB(hue, saturation, value) ==
    LET hm == fmodf(hue, 360 * SCALE)
        normalizedHue == fmodf(hm + 360 * SCALE, 360 * SCALE)
        s == Max0(0, Min(SCALE, saturation))
        v == Max0(0, Min(SCALE, value))
        c == (v * s) \div SCALE
        tri == 60 * SCALE - Abs((normalizedHue % (120 * SCALE)) - 60 * SCALE)
        x == (c * tri) \div (60 * SCALE)
        m == v - c
        rgbPrime == IF normalizedHue < 60 * SCALE THEN <<c, x, 0>>
                    ELSE IF normalizedHue < 120 * SCALE THEN <<x, c, 0>>
                    ELSE IF normalizedHue < 180 * SCALE THEN <<0, c, x>>
                    ELSE IF normalizedHue < 240 * SCALE THEN <<0, x, c>>
                    ELSE IF normalizedHue < 300 * SCALE THEN <<x, 0, c>>
                    ELSE <<c, 0, x>>
    IN <<byte(rgbPrime[1] + m), byte(rgbPrime[2] + m), byte(rgbPrime[3] + m)>>

\* currentActiveColor(): hue in ticks of a degree, brightness in ticks of a percent
currentActiveColor(hue, brightness) ==
    hsvToRGB(hue, SCALE, Max0(0, Min(SCALE, brightness \div 100)))

\* LEDColor.off
LEDColorOff == <<0, 0, 0>>

\* the colour of one gradient run: the hue follows the run's midpoint
GradientColor(chunkStart, chunkLength, rainbowPhase, brightness) ==
    LET cyclePosition == (((2 * chunkStart + chunkLength) * SCALE)
                              \div (2 * Max0(1, rainbowLength))) + rainbowPhase
        hue == (((cyclePosition % SCALE) + SCALE) % SCALE) * 360
    IN hsvToRGB(hue, SCALE, Max0(0, Min(SCALE, brightness \div 100)))

\* mutant: every run, the last included, takes remaining / runCount
GradientStep_no_remainder(v, index, runCount, offset, rainbowPhase, brightness) ==
    The({ [remaining |-> v.remaining - chunkLength,
           consumed |-> v.consumed + chunkLength,
           gradientRuns |-> Append(v.gradientRuns,
               Run(UInt16Wrap(offset + v.consumed), chunkLength,
                   GradientColor(v.consumed, chunkLength, rainbowPhase, brightness)))]
          : chunkLength \in { Max0(1, v.remaining \div runCount) } })

\* one iteration of the loop of rainbowGradientRuns on the loop variables
GradientStep(v, index, runCount, offset, rainbowPhase, brightness) ==
    The({ [remaining |-> v.remaining - chunkLength,
           consumed |-> v.consumed + chunkLength,
           gradientRuns |-> Append(v.gradientRuns,
               Run(UInt16Wrap(offset + v.consumed), chunkLength,
                   GradientColor(v.consumed, chunkLength, rainbowPhase, brightness)))]
          : chunkLength \in { IF index = runCount - 1 THEN v.remaining
                              ELSE Max0(1, v.remaining \div (runCount - index)) } })

\* iterations lo .. hi - 1 of the loop, in order (the range is halved so that
\* fifty iterations are evaluated without deep nesting)
RECURSIVE GradientLoop(_, _, _, _, _, _, _)
GradientLoop(v0, lo, hi, runCount, offset, rainbowPhase, brightness) ==
    IF hi <= lo THEN v0
    ELSE IF hi = lo + 1
         THEN GradientStep(v0, lo, runCount, offset, rainbowPhase, brightness)
    ELSE The({ GradientLoop(v, lo + (hi - lo) \div 2, hi, runCount, offset,
                            rainbowPhase, brightness)
               : v \in {GradientLoop(v0, lo, lo + (hi - lo) \div 2, runCount, offset,
                                     rainbowPhase, brightness)} })

\* rainbowGradientRuns(length:offset:), with the app state it reads
rainbowGradientRuns(length, offset, rainbowPhase, brightness) ==
    IF length <= 0 THEN <<>>
    ELSE The({ GradientLoop([remaining |-> length, consumed |-> 0, gradientRuns |-> <<>>],
                            0, runCount, runCount, offset, rainbowPhase,
                            brightness).gradientRuns
               : runCount \in {Max0(1, Min(length, maxRainbowRuns))} })

\* the leading run of unlit pixels, if any
LeadingRuns(clampedStart) ==
    IF clampedStart > 1 THEN <<Run(0, clampedStart - 1, LEDColorOff)>> ELSE <<>>

\* mutant: no run is appended after the segment
TrailingRuns_omitted(cursor, clampedEnd) == <<>>

\* the trailing run of unlit pixels, if any
TrailingRuns(cursor, clampedEnd) ==
    IF clampedEnd < maxLights THEN <<Run(cursor, maxLights - clampedEnd, LEDColorOff)>>
    ELSE <<>>

\* buildCurrentRuns(), with the app state it reads
buildCurrentRuns(segmentStart, segmentEnd, hue, brightness) ==
    LET clampedStart == Max0(1, Min(segmentStart, maxLights))
        clampedEnd == Max0(clampedStart, Min(segmentEnd, maxLights))
        length == clampedEnd - clampedStart + 1
    IN LeadingRuns(clampedStart)
       \o <<Run(clampedStart - 1, length, currentActiveColor(hue, brightness))>>
       \o TrailingRuns(UInt16Wrap(clampedStart - 1 + length), clampedEnd)

\* buildRainbowRuns(), with the app state it reads
buildRainbowRuns(segmentStart, segmentEnd, rainbowPhase, brightness) ==
    LET clampedStart == Max0(1, Min(segmentStart, maxLights))
        clampedEnd == Max0(clampedStart, Min(segmentEnd, maxLights))
        activeLength == clampedEnd - clampedStart + 1
    IN LeadingRuns(clampedStart)
       \o rainbowGradientRuns(activeLength, clampedStart - 1, rainbowPhase, brightness)
       \o TrailingRuns(UInt16Wrap(clampedStart - 1 + activeLength), clampedEnd)

\* segment endpoints held by the app, in and out of the strip, in and out of order
AuthorStarts == {-3, 0, 1, 2, 101, 120, 300, 301}
AuthorEnds == {-1, 0, 1, 119, 200, 299, 300, 700}

\* the endpoints of the frames that are sent
AuthorSegments == {<<1, 300>>, <<0, 301>>, <<120, 119>>, <<101, 200>>}

\* rainbowEnabled, then the hue (ticks of a degree) or the rainbow phase (ticks
\* of a cycle), then the brightness slider (ticks of a percent)
AuthorModes ==
    { <<FALSE, 25 * SCALE, 15 * SCALE>>, <<TRUE, 0, 15 * SCALE>>,
      <<TRUE, SCALE \div 2, 100 * SCALE>> }

\* the run list sendFrame() builds
FrameRuns(segmentStart, segmentEnd, rainbowEnabled, tone, brightness) ==
    IF rainbowEnabled
    THEN buildRainbowRuns(segmentStart, segmentEnd, tone, brightness)
    ELSE buildCurrentRuns(segmentStart, segmentEnd, tone, brightness)

\* the app, started and not having sent a frame, builds the run list for its
\* segment: every pair of endpoints, in every mode
AuthorBuild ==
    /\ build = "arduino"
    /\ ncmds = 0
    /\ probe.fn = "none"
    /\ \E segmentStart \in AuthorStarts, segmentEnd \in AuthorEnds, mode \in AuthorModes :
            probe' = [fn |-> "buildRuns",
                      arg |-> <<segmentStart, segmentEnd, mode[1]>>,
                      out |-> FrameRuns(segmentStart, segmentEnd, mode[1], mode[2], mode[3])]
    /\ UNCHANGED <<build, segment_start, segment_end, current_hue, current_saturation,
                   current_brightness, hue_offset, brightness_offset, pixels,
                   adjusted_hue, adjusted_brightness, halted, reset_supported,
                   last_payload, last, prev, hue_log, ncmds, inbox, active>>
    /\ UNCHANGED AppVars

\* sendFrame(): the frame is built, encoded and written; the firmware decodes it
AuthorSend ==
    /\ build = "arduino"
    /\ ~halted
    /\ ncmds < MaxAuthorCmds
    /\ probe.fn # "buildRuns"
    /\ \E segment \in AuthorSegments, mode \in AuthorModes :
           \E runs \in {FrameRuns(segment[1], segment[2], mode[1], mode[2], mode[3])} :
             \E s \in {Callback(State, dataPayload(runs))} :
                /\ Becomes(s)
                /\ last_payload' = dataPayload(runs)
                /\ probe' = [fn |-> "sendFrame",
                             arg |-> <<segment[1], segment[2], mode[1]>>,
                             out |-> runs]
                /\ UNCHANGED <<inbox, active>>
    /\ UNCHANGED AppVars

AuthorNext ==
    \/ AuthorBuild
    \/ AuthorSend

AuthorSpec == Init /\ [][AuthorNext]_vars

(* The rainbow gradient on its own *)

\* lengths and offsets of a gradient, up to the ends of UInt16
GradientLengths == {1, 2, 49, 50, 51, 99, 100, 149, 300, 65535}
GradientOffsets == {0, 1, 250, 65535}

\* rainbow phase (ticks of a cycle) and brightness slider (ticks of a percent)
GradientModes == {<<0, 15 * SCALE>>, <<SCALE \div 2, 100 * SCALE>>}

\* dataPayload() returned nil
NoPayload == <<>>

\* LEDFrame.dataPayload() with its guard; a payload is never empty
dataPayloadOrNil(runs) ==
    IF runs = <<>> \/ Len(runs) > 255 THEN NoPayload ELSE dataPayload(runs)

\* rainbowPayload(), with the app state it reads
rainbowPayload(segmentStart, segmentEnd, rainbowPhase, brightness) ==
    The({ IF runs = <<>> THEN NoPayload ELSE dataPayloadOrNil(runs)
          : runs \in {buildRainbowRuns(segmentStart, segmentEnd, rainbowPhase, brightness)} })

\* rainbowGradientRuns is applied once to a length and an offset
GradientApply ==
    /\ probe.fn = "none"
    /\ \E length \in GradientLengths, offset \in GradientOffsets, mode \in GradientModes :
          probe' = [fn |-> "rainbowGradientRuns",
                    arg |-> <<length, offset>>,
                    out |-> rainbowGradientRuns(length, offset, mode[1], mode[2])]
    /\ UNCHANGED <<build, segment_start, segment_end, current_hue, current_saturation,
                   current_brightness, hue_offset, brightness_offset, pixels,
                   adjusted_hue, adjusted_brightness, halted, reset_supported,
                   last_payload, last, prev, hue_log, ncmds, inbox, active>>
    /\ UNCHANGED AppVars

\* rainbowPayload() encodes the rainbow frame of one segment
GradientPayload ==
    /\ probe.fn = "none"
    /\ \E segmentStart \in AuthorStarts, segmentEnd \in AuthorEnds, mode \in GradientModes :
          probe' = [fn |-> "rainbowPayload",
                    arg |-> <<segmentStart, segmentEnd>>,
                    out |-> rainbowPayload(segmentStart, segmentEnd, mode[1], mode[2])]
    /\ UNCHANGED <<build, segment_start, segment_end, current_hue, current_saturation,
                   current_brightness, hue_offset, brightness_offset, pixels,
                   adjusted_hue, adjusted_brightness, halted, reset_supported,
                   last_payload, last, prev, hue_log, ncmds, inbox, active>>
    /\ UNCHANGED AppVars

GradientNext ==
    \/ GradientApply
    \/ GradientPayload

GradientSpec == Init /\ [][GradientNext]_vars

(* The UDP app: the user, the network and connectionQueue *)

\* the manager changes; the firmware and the other apps stay as they are
UdpBecomes(u, counted, by) ==
    /\ udp' = [u EXCEPT !.events = @ + (IF counted THEN 1 ELSE 0), !.by = by]
    /\ UNCHANGED <<FirmwareVars, seg_app, ap, ble, adj>>

UdpEventAllowed == udp.events < MaxUdpEvents

\* start(): the view appears
UdpStart ==
    /\ UdpEventAllowed
    /\ ~udp.started
    /\ UdpBecomes(startConnectionIfNeeded([udp EXCEPT !.started = TRUE]), TRUE, NilConnection)

\* the user taps Reconnect
UdpRestart ==
    /\ UdpEventAllowed
    /\ udp.started
    /\ udp.restarts < MaxConnections - 1
    /\ UdpBecomes([restartConnection(udp) EXCEPT !.restarts = @ + 1], TRUE, NilConnection)

\* the user asks for a reset of the strip
UdpRequestReset ==
    /\ UdpEventAllowed
    /\ udp.started
    /\ udp.restarts < MaxConnections - 1
    /\ UdpBecomes([requestResetAndReconnect(udp) EXCEPT !.restarts = @ + 1,
                                                        !.resets = @ + 1],
                  TRUE, NilConnection)

\* a manual hue is sent
UdpSendManual ==
    /\ UdpEventAllowed
    /\ udp.started
    /\ UdpBecomes(sendUDP(udp, "H_SET"), TRUE, NilConnection)

\* the deadline of an asyncAfter block passes: the block joins the queue
UdpTimerDue ==
    /\ udp.timers > 0
    /\ UdpBecomes(Submit([udp EXCEPT !.timers = @ - 1],
                         Block("timer", NilConnection, <<>>)), FALSE, NilConnection)

\* the network changes the state of a connection and calls its handler on
\* connectionQueue
UdpNetChange ==
    /\ UdpEventAllowed
    /\ \E c \in 1..MaxConnections, state \in {"ready", "waiting", "failed"} :
          /\ udp.net[c] \in {"preparing", "ready", "waiting"}
          /\ udp.net[c] # state
          /\ UdpBecomes(Submit([udp EXCEPT !.net[c] = state], Block("state", c, <<state>>)),
                        TRUE, NilConnection)

\* a cancelled connection reports .cancelled, some time after cancel()
UdpNetCancelled ==
    \E c \in 1..MaxConnections :
       /\ udp.net[c] = "cancelling"
       /\ UdpBecomes(Submit([udp EXCEPT !.net[c] = "cancelled"],
                            Block("state", c, <<"cancelled">>)), FALSE, NilConnection)

\* connectionQueue runs its first block
UdpRunBlock ==
    /\ udp.queue # <<>>
    /\ \E b \in {Head(udp.queue)} :
         \E sendError \in (IF b.op = "send" THEN BOOLEAN ELSE {FALSE}) :
            UdpBecomes(RunOne([udp EXCEPT !.queue = Tail(@)], b, sendError), FALSE,
                       IF b.op = "state" THEN b.conn ELSE NilConnection)

UdpNext ==
    \/ UdpStart
    \/ UdpRestart
    \/ UdpRequestReset
    \/ UdpSendManual
    \/ UdpTimerDue
    \/ UdpNetChange
    \/ UdpNetCancelled
    \/ UdpRunBlock

UdpSpec == Init /\ [][UdpNext]_vars

\* connectionQueue runs every block submitted to it, every asyncAfter deadline
\* passes, and a cancelled connection reports it; the user and the network
\* are under no obligation
UdpLiveSpec ==
    /\ UdpSpec
    /\ WF_vars(UdpRunBlock)
    /\ WF_vars(UdpTimerDue)
    /\ WF_vars(UdpNetCancelled)

(* The UDP access-point firmware: main() step by step, and datagrams *)

ApBecomes(a) ==
    /\ ap' = a
    /\ UNCHANGED <<FirmwareVars, seg_app, udp, ble, adj>>

\* cyw43_arch_init(): on failure main returns 1
ApArchInit ==
    /\ ap.pc = "main"
    /\ \E ok \in BOOLEAN :
          ApBecomes(IF ok THEN [ap EXCEPT !.pc = "ap_mode", !.cyw43 = TRUE]
                    ELSE [ap EXCEPT !.pc = "returned", !.exit = 1])

\* cyw43_arch_enable_ap_mode, dhcp_server_init, ws2812_init, first colour
ApBringUp ==
    /\ ap.pc = "ap_mode"
    /\ ApBecomes([ap EXCEPT !.pc = "listen", !.dhcp = TRUE, !.led = ApStartupColor])

\* start_udp_listener(): udp_new or udp_bind may fail; otherwise udp_recv
\* registers the callback.  It returns to main in every case.
ApStartListener ==
    /\ ap.pc = "listen"
    /\ \E outcome \in {"no_pcb", "bind_failed", "registered"} :
          ApBecomes([ap EXCEPT !.pc = "dhcp_deinit",
                               !.listener = (outcome = "registered")])

\* dhcp_server_deinit(&lease_server)
ApDhcpDeinit ==
    /\ ap.pc = "dhcp_deinit"
    /\ ApBecomes([ap EXCEPT !.pc = "arch_deinit", !.dhcp = FALSE])

\* cyw43_arch_deinit(); return 0
ApArchDeinit ==
    /\ ap.pc = "arch_deinit"
    /\ ApBecomes([ap EXCEPT !.pc = "returned", !.cyw43 = FALSE])

\* a motion datagram reaches udp_motion_recv, which the stack calls from the
\* background while it is up
ApDatagram ==
    /\ ap.listener
    /\ ap.cyw43
    /\ ap.received < MaxApDatagrams
    /\ \E triple \in MotionTriples :
          ApBecomes([ap EXCEPT !.received = @ + 1,
                               !.led = ap_render_motion_color(triple[1], triple[2],
                                                              triple[3])])

ApNext ==
    \/ ApArchInit
    \/ ApBringUp
    \/ ApStartListener
    \/ ApDhcpDeinit
    \/ ApArchDeinit
    \/ ApDatagram

ApSpec == Init /\ [][ApNext]_vars

(* The BLE apps: connection and service discovery events *)

BleBecomes(b, by) ==
    /\ ble' = [b EXCEPT !.by = by]
    /\ UNCHANGED <<FirmwareVars, seg_app, udp, ap, adj>>

\* the scanned peripheral connects
BleDidConnect ==
    /\ ~ble.connected
    /\ ble.conn < MaxBleConnections
    /\ BleBecomes(didConnect(ble), "didConnect")

\* the peripheral answers a discoverServices request
BleDidDiscoverServices ==
    /\ ble.connected
    /\ ble.outstanding > 0
    /\ \E outcome \in DiscoveryOutcomes :
          BleBecomes(didDiscoverServices(ble, outcome), outcome)

\* an asyncAfter block scheduled by scheduleServiceDiscovery runs
BleRetryDue ==
    /\ ble.timers # <<>>
    /\ BleBecomes(discoverServices([ble EXCEPT !.timers = Tail(@)]), "retry")

\* the link drops
BleDidDisconnect ==
    /\ ble.connected
    /\ BleBecomes(didDisconnectPeripheral(ble), "didDisconnect")

BleNext ==
    \/ BleDidConnect
    \/ BleDidDiscoverServices
    \/ BleRetryDue
    \/ BleDidDisconnect

BleSpec == Init /\ [][BleNext]_vars

(* The UDP app's hold-to-adjust controls and the motion handler *)

AdjBecomes(a) ==
    /\ adj' = a
    /\ UNCHANGED <<FirmwareVars, seg_app, udp, ap, ble>>

\* the hue hold button is pressed or released
AdjSetHue ==
    /\ adj.calls < MaxAdjustCalls
    /\ \E isActive \in BOOLEAN :
          AdjBecomes([setHueAdjustmentActive(adj, isActive) EXCEPT !.calls = @ + 1])

\* the brightness hold button is pressed or released
AdjSetBrightness ==
    /\ adj.calls < MaxAdjustCalls
    /\ \E isActive \in BOOLEAN :
          AdjBecomes([setBrightnessAdjustmentActive(adj, isActive) EXCEPT !.calls = @ + 1])

\* adjustmentStateQueue runs its next block
AdjRunUpdate ==
    /\ adj.queue # <<>>
    /\ AdjBecomes(updateAdjustmentState_block([adj EXCEPT !.queue = Tail(@)],
                                              Head(adj.queue)[1], Head(adj.queue)[2]))

RotationRates == {0, 20}
GravityZs == {-1000, -998, 0}

\* a device motion arrives: adjustmentPayload reads the mode with a sync on
\* the queue; for .brightness the handler goes on to brightnessDelta
AdjMotionArrives ==
    /\ adj.motion = <<>>
    /\ adj.queue = <<>>
    /\ adj.ticks < MaxMotionTicks
    /\ \E rate \in RotationRates, z \in GravityZs :
          LET a == [adj EXCEPT !.ticks = @ + 1]
              delta == rate * 5
          IN CASE adj.adjustmentMode = "none" -> AdjBecomes(a)
               [] adj.adjustmentMode = "hue" ->
                    AdjBecomes(IF Abs(delta) >= 50
                               THEN [a EXCEPT !.payload = <<"H", delta>>]
                               ELSE a)
               [] OTHER -> AdjBecomes([a EXCEPT !.motion = <<z>>])

\* brightnessDelta(for:) runs in its own sync on the queue, then the payload
AdjMotionDelta ==
    /\ adj.motion # <<>>
    /\ adj.queue = <<>>
    /\ LET z == adj.motion[1]
           delta == brightnessDelta(adj, z)
           a == [adj EXCEPT !.lastBrightnessZ = <<z>>, !.motion = <<>>]
       IN AdjBecomes(IF Abs(delta) >= 2
                     THEN [a EXCEPT !.payload = <<"B", delta>>]
                     ELSE a)

AdjNext ==
    \/ AdjSetHue
    \/ AdjSetBrightness
    \/ AdjRunUpdate
    \/ AdjMotionArrives
    \/ AdjMotionDelta

AdjSpec == Init /\ [][AdjNext]_vars

----------------------------------------------------------------------------
TypeOK ==
    /\ build \in Builds
    /\ reset_supported \in ResetSupport(build)
    /\ segment_start \in 0..65535
    /\ segment_end \in 0..65535
    /\ DOMAIN pixels = 0..(LedCount(build) - 1)
    /\ \A i \in DOMAIN pixels : pixels[i] \in 0..(256 * 65536 - 1)

----------------------------------------------------------------------------
(* Claims *)

\* this step handled one received payload
Received == ncmds' = ncmds + 1

Normalize360(x) == x % (360 * SCALE)

Max2(a, b) == IF a > b THEN a ELSE b

ClampBrightness(v) == Max2(MinBrightness(build), Min(v, MaxBrightness(build)))

RECURSIVE SumSeq(_)
SumSeq(q) == IF q = <<>> THEN 0 ELSE Head(q) + SumSeq(Tail(q))

\* C1: after any sequence of commands the segment satisfies
\* 0 <= segment_start <= segment_end <= NUM_LEDS - 1.
C1_SegmentOrdered ==
    /\ 0 <= segment_start
    /\ segment_start <= segment_end
    /\ segment_end <= LedCount(build) - 1

\* a start beyond the strip was clamped onto the last pixel and pulled the end up
C1_Witness ==
    /\ last.handler = "set_segment_start"
    /\ last.arg[1] >= LedCount(build)
    /\ prev.handler = "set_segment_end"
    /\ segment_start = LedCount(build) - 1
    /\ segment_end = LedCount(build) - 1

\* C2: set_segment_start(i) followed by set_segment_end(j) with j < i leaves
\* segment_start = segment_end = i, and set_segment_end never changes segment_start.
C2_Step ==
    /\ (Received /\ last'.handler = "set_segment_end")
           => segment_start' = segment_start
    /\ (/\ Received
        /\ last.handler = "set_segment_start"
        /\ last'.handler = "set_segment_end"
        /\ last.arg[1] \in 0..(LedCount(build) - 1)
        /\ last'.arg[1] < last.arg[1])
           => (segment_start' = last.arg[1] /\ segment_end' = last.arg[1])

C2_EndPulledUp == [][C2_Step]_vars

\* the last pixel as start, then the first pixel as end
C2_Witness ==
    /\ prev.handler = "set_segment_start"
    /\ last.handler = "set_segment_end"
    /\ prev.arg[1] = LedCount(build) - 1
    /\ last.arg[1] = 0
    /\ segment_start = LedCount(build) - 1
    /\ segment_end = LedCount(build) - 1

\* C3: at every render the effective brightness handed to the HSV converter
\* lies within [MIN_BRIGHTNESS, MAX_BRIGHTNESS].
C3_RenderedBrightnessInRange ==
    /\ adjusted_brightness >= MinBrightness(build)
    /\ adjusted_brightness <= MaxBrightness(build)

\* two adjustments in a row, the second far below the range
C3_Witness ==
    /\ prev.handler = "adjust_brightness"
    /\ last.handler = "adjust_brightness"
    /\ last.arg[1] = -2 * SCALE
    /\ adjusted_brightness = MinBrightness(build)

\* C4: "H_SET,<x>" sets the base hue to x normalised into [0,360) and sets
\* hue_offset to 0, whatever hue_offset was before.
C4_HSet ==
    \A x \in HueArgs :
        last_payload = HSetPayload(x) =>
            /\ last.handler = "set_hue"
            /\ current_hue = Normalize360(x)
            /\ current_hue >= 0
            /\ current_hue < 360 * SCALE
            /\ hue_offset = 0

\* a negative hue set right after a non-zero hue adjustment
C4_Witness ==
    /\ last_payload = HSetPayload(-90 * SCALE - SCALE \div 2)
    /\ prev.handler = "adjust_hue"
    /\ prev.arg[1] = 30 * SCALE
    /\ current_hue = 269 * SCALE + SCALE \div 2
    /\ hue_offset = 0

\* C5: "B_SET,<p>" sets the base brightness to clamp(p/100, MIN, MAX) and sets
\* brightness_offset to 0; an out-of-range p is clamped, never rejected.
C5_BSet ==
    \A p \in PctArgs :
        last_payload = BSetPayload(p) =>
            /\ last.handler = "set_brightness"
            /\ current_brightness = ClampBrightness(p \div 100)
            /\ brightness_offset = 0

\* a percent above 100 set right after a brightness adjustment
C5_Witness ==
    /\ last_payload = BSetPayload(150 * SCALE)
    /\ prev.handler = "adjust_brightness"
    /\ current_brightness = MaxBrightness(build)
    /\ brightness_offset = 0

\* C6: adjust_hue changes nothing but hue_offset and adjust_brightness nothing
\* but brightness_offset, among the colour state and the segment.
C6_Step ==
    /\ (Received /\ last'.handler = "adjust_hue")
           => UNCHANGED <<current_hue, current_saturation, current_brightness,
                          brightness_offset, segment_start, segment_end>>
    /\ (Received /\ last'.handler = "adjust_brightness")
           => UNCHANGED <<current_hue, current_saturation, current_brightness,
                          hue_offset, segment_start, segment_end>>

C6_AdjustFrame == [][C6_Step]_vars

C6_Witness ==
    /\ prev.handler = "adjust_hue"
    /\ last.handler = "adjust_brightness"
    /\ hue_offset # 0
    /\ brightness_offset # 0

\* C7: after set_hue(x) followed by adjust_hue(d1), ..., adjust_hue(dn) with no
\* other hue command in between, the effective hue is (x + d1 + ... + dn) mod 360.
C7_EffectiveHue ==
    hue_log # <<>> =>
        /\ adjusted_hue = Normalize360(SumSeq(hue_log))
        /\ (current_hue + hue_offset) % (360 * SCALE) = Normalize360(SumSeq(hue_log))

C7_Witness ==
    /\ Len(hue_log) = 3
    /\ hue_log[2] # 0
    /\ hue_log[3] # 0
    /\ last.handler = "adjust_hue"

\* C8 as stated: a payload goes to the frame decoder iff its length is >= 3 and
\* its first byte is 0xA0, and every other payload goes to the text parser.
IsFrameSignature(p) == Len(p) >= 3 /\ p[1] = kFrameCommandId

C8_AsStated ==
    (build = "arduino" /\ ncmds > 0) =>
        /\ (last.dispatch = "frame") <=> IsFrameSignature(last_payload)
        /\ ~IsFrameSignature(last_payload) => last.dispatch = "text"

\* C8 as amended: every other non-empty payload goes to the text parser; an
\* empty payload is dropped by the callback before either is tried.
C8_Dispatch ==
    (build = "arduino" /\ ncmds > 0) =>
        /\ (last.dispatch = "frame") <=> IsFrameSignature(last_payload)
        /\ (~IsFrameSignature(last_payload) /\ last_payload # <<>>)
               => last.dispatch = "text"
        /\ last_payload = <<>> => last.dispatch = "dropped"

\* a two-byte payload starting with 0xA0 went to the text parser
C8_Witness ==
    /\ build = "arduino"
    /\ last_payload = <<kFrameCommandId, 1>>
    /\ last.dispatch = "text"
    /\ prev.dispatch = "frame"

\* the pixels a run covers, as unbounded integers
Covers(run, i) == run.start <= i /\ i < run.start + run.length /\ i < kLedCount

RunColor(run) == Color(run.color[1], run.color[2], run.color[3])

\* C9 as stated: a run sets exactly the pixels i with start <= i < start + length
\* (as unbounded integers) and i < NUM_LEDS, and changes no other pixel.
C9_Step ==
    \A runs \in SingleRunFrames :
        (Received /\ build = "arduino" /\ last_payload' = dataPayload(runs)) =>
            pixels' = [i \in DOMAIN pixels |->
                          IF Covers(runs[1], i) THEN RunColor(runs[1]) ELSE pixels[i]]

C9_RunPaintsItsSpan == [][C9_Step]_vars

\* C10 as stated: after a frame, every pixel covered by several runs has the
\* colour of the last run in the payload that covers it.
C10_Step ==
    \A runs \in MultiRunFrames :
        (Received /\ build = "arduino" /\ last_payload' = dataPayload(runs)) =>
            \A i \in DOMAIN pixels :
                LET K == {k \in 1..Len(runs) : Covers(runs[k], i)}
                IN Cardinality(K) >= 2 =>
                       pixels'[i] = RunColor(runs[CHOOSE k \in K : \A j \in K : j <= k])

C10_LastRunWins == [][C10_Step]_vars

ColorState ==
    <<current_hue, current_saturation, current_brightness, hue_offset, brightness_offset>>

Segment == <<segment_start, segment_end>>

\* the pixels after the runs, each painting its span as unbounded integers
RECURSIVE Painted(_, _)
Painted(px, runs) ==
    IF runs = <<>> THEN px
    ELSE Painted([i \in DOMAIN px |->
                     IF Covers(Head(runs), i) THEN RunColor(Head(runs)) ELSE px[i]],
                 Tail(runs))

NoWrap(runs) == \A k \in 1..Len(runs) : runs[k].start + runs[k].length < 65536

\* C11: a version-1 frame that declares n runs but holds only k < n complete
\* ones is a handled frame that leaves the pixels as the frame of its first k
\* runs alone would: the k runs applied, nothing else changed, nothing undone.
C11_Step ==
    \A f \in TruncatedFrames :
        (Received /\ build = "arduino" /\ last_payload' = TruncatedPayload(f)) =>
            /\ last'.dispatch = "frame"
            /\ last'.note = "truncated"
            /\ last'.arg = <<Len(f.runs)>>
            /\ pixels' = gattWriteCallback(State, FrameBytes(1, Len(f.runs), f.runs)).pixels
            /\ NoWrap(f.runs) => pixels' = Painted(pixels, f.runs)

C11_TruncatedFrame == [][C11_Step]_vars

\* one complete run of 255 declared was painted over the end of the strip
C11_Witness ==
    /\ build = "arduino"
    /\ last_payload = TruncatedPayload([declared |-> 255, runs |-> <<Run(298, 5, Green)>>,
                                        tail |-> <<1>>])
    /\ last.note = "truncated"
    /\ last.arg = <<1>>
    /\ pixels[298] = Color(0, 255, 0)
    /\ pixels[299] = Color(0, 255, 0)
    /\ pixels[297] # Color(0, 255, 0)

\* C12: a payload with the frame signature and a version byte other than 1
\* changes no pixel, no ColorState field and no segment bound, is handled by
\* the frame decoder and is not passed to the text parser.
C12_Step ==
    (/\ Received
     /\ build = "arduino"
     /\ IsFrameSignature(last_payload')
     /\ last_payload'[2] # 1) =>
        /\ UNCHANGED <<pixels, ColorState, Segment>>
        /\ last'.dispatch = "frame"
        /\ last'.handler = "parse_frame_packet"
        /\ last'.note = "unsupported"

C12_UnsupportedVersion == [][C12_Step]_vars

\* a version-2 frame right after a frame that painted pixels
C12_Witness ==
    /\ build = "arduino"
    /\ last_payload = FrameBytes(2, 1, <<Run(0, 3, Red)>>)
    /\ last.note = "unsupported"
    /\ prev.dispatch = "frame"
    /\ prev.note = "ok"
    /\ pixels[1] = Color(0, 255, 0)

\* C13: no frame payload (whole, truncated or of an unsupported version)
\* changes base hue, saturation, base brightness, hue_offset,
\* brightness_offset, segment_start or segment_end.
C13_Step ==
    (Received /\ last'.dispatch = "frame") => UNCHANGED <<ColorState, Segment>>

C13_FrameWritesPixelsOnly == [][C13_Step]_vars

\* a frame decoded with the segment narrowed and a hue offset in place
C13_Witness ==
    /\ last.dispatch = "frame"
    /\ last.note = "ok"
    /\ segment_start = 10
    /\ hue_offset = 30 * SCALE
    /\ \E i \in DOMAIN pixels : i < segment_start /\ pixels[i] # Off

HsvHandlers ==
    {"set_hue", "set_brightness", "adjust_hue", "adjust_brightness",
     "set_segment_start", "set_segment_end", "render_motion_color"}

\* the colour of the current ColorState: effective hue and clamped effective
\* brightness through the converter
StateColor ==
    LET rgb == hsv_to_rgb(Normalize360(current_hue + hue_offset), current_saturation,
                          ClampBrightness(current_brightness + brightness_offset))
    IN Color(rgb[1], rgb[2], rgb[3])

\* C14: right after every HSV-path command, whatever came before, every pixel
\* inside the segment shows the colour of the current ColorState and every
\* pixel outside it is off.
C14_FullOverwrite ==
    last.handler \in HsvHandlers =>
        \E c \in {StateColor} :
            \A i \in DOMAIN pixels :
                pixels[i] = IF segment_start <= i /\ i <= segment_end THEN c ELSE Off

\* a frame painted pixel 0, then SEG_START moved the segment past it
C14_Witness ==
    /\ build = "arduino"
    /\ prev.dispatch = "frame"
    /\ prev.note = "ok"
    /\ last.handler = "set_segment_start"
    /\ segment_start = 10
    /\ pixels[0] = Off
    /\ pixels[10] # Off

\* C15: a text payload that matches no rule, such as "garbage" or a keyword
\* prefix without a number after it, invokes no handler and leaves ColorState,
\* Segment and the pixels unchanged, and the firmware goes on taking commands.
C15_Step ==
    (Received /\ last_payload' \in MalformedPayloads) =>
        /\ last'.dispatch = "text"
        /\ last'.handler = "none"
        /\ UNCHANGED <<ColorState, Segment, pixels, halted>>

C15_MalformedIgnored == [][C15_Step]_vars

\* a payload without a rule was ignored and the H_SET after it took effect
C15_Witness ==
    /\ prev.note = "unrecognized"
    /\ last_payload = HSetPayload(90 * SCALE)
    /\ last.handler = "set_hue"
    /\ current_hue = 90 * SCALE
    /\ ncmds = 3

\* the 0-based index of the 1-based command value v
SegIndex(v) == Min(Max2(v - 1, 0), LedCount(build) - 1)

\* C16 as stated: SEG_START,v and SEG_END,v set their bound to the index
\* min(v - 1, NUM_LEDS - 1), with v = 0 taken as index 0.
C16_AsStated ==
    \A v \in SegValues(build) :
        /\ last_payload = SegStartPayload(v) => segment_start = SegIndex(v)
        /\ last_payload = SegEndPayload(v) => segment_end = SegIndex(v)

\* C16 as amended: the handler is called with that index for every v; the
\* start takes it, and the end takes it unless it lies below segment_start,
\* where the end is raised to segment_start.
C16_OneBased ==
    \A v \in SegValues(build) :
        /\ last_payload = SegStartPayload(v) =>
               /\ last.handler = "set_segment_start"
               /\ last.arg = <<Max2(v - 1, 0)>>
               /\ segment_start = SegIndex(v)
        /\ last_payload = SegEndPayload(v) =>
               /\ last.handler = "set_segment_end"
               /\ last.arg = <<Max2(v - 1, 0)>>
               /\ segment_end = Max2(SegIndex(v), segment_start)

\* SEG_START,0 moved a start that was further up back to index 0
C16_Witness ==
    /\ prev.handler = "set_segment_start"
    /\ prev.arg[1] > 0
    /\ last_payload = SegStartPayload(0)
    /\ segment_start = 0

\* C17 as stated: "SEG_START," without a number sets the segment start to 0.
C17_MissingValueIsZero ==
    last_payload = kSEG_START => segment_start = 0

\* C18 as stated: a text payload that begins with "RESET" triggers the
\* hardware reset without changing ColorState, Segment or the pixels, and
\* after the reset no command changes any state.
C18_Step ==
    /\ (Received /\ strncmp_eq(last_payload', kRESET)) =>
           /\ halted'
           /\ UNCHANGED <<ColorState, Segment, pixels>>
    /\ halted => UNCHANGED vars

C18_ResetTerminal == [][C18_Step]_vars

\* C19 as stated: after a motion command both offsets are 0, and the hue and
\* brightness rendered are the ones the motion mapping computed.
C19_MotionIsAbsolute ==
    last.handler = "render_motion_color" =>
        /\ hue_offset = 0
        /\ brightness_offset = 0
        /\ adjusted_hue = current_hue
        /\ adjusted_brightness = current_brightness

\* this step handled the payload the step before it handled
SamePayloadAgain == Received /\ ncmds >= 1 /\ last_payload' = last_payload

\* C20 as stated: a payload applied a second time in succession leaves
\* ColorState, Segment and the pixels as the first application left them.
C20_AsStated_Step == SamePayloadAgain => UNCHANGED <<ColorState, Segment, pixels>>

C20_AsStated == [][C20_AsStated_Step]_vars

\* C20 as amended: so it is for every payload but the relative adjustments
\* "H,<d>" and "B,<d>", which add to their offset each time.
C20_Step ==
    (SamePayloadAgain /\ last'.handler \notin {"adjust_hue", "adjust_brightness"}) =>
        UNCHANGED <<ColorState, Segment, pixels>>

C20_Idempotent == [][C20_Step]_vars

\* the same H_SET twice, after a hue adjustment
C20_Witness ==
    /\ ncmds = 3
    /\ hue_log = <<90 * SCALE>>
    /\ prev.handler = "set_hue"
    /\ last.handler = "set_hue"
    /\ prev.arg = last.arg
    /\ last_payload = HSetPayload(90 * SCALE)

\* the runs the decoder read from a payload, as the records the encoder takes
DecodedRuns(data) ==
    The({ [k \in 1..Len(q) |-> Run(q[k][1], q[k][2], <<q[k][3], q[k][4], q[k][5]>>)]
          : q \in {frame_runs(pixels, data, 3, 0, At(data, 2)).runs} })

\* byte j (from 1) of run k (from 1) in a frame payload
RunByte(p, k, j) == p[3 + 7 * (k - 1) + j]

\* C21: for a list of 1..255 canonical runs the encoder emits 0xA0, version 1,
\* the run count and per run seven bytes (start and length as little-endian
\* 16-bit, then r, g, b); the decoder reads back the same runs in the same
\* order, all of them, and encoding what it read gives the same bytes.
C21_RoundTrip ==
    \A runs \in CodecRunLists :
        (build = "arduino" /\ Len(last_payload) = 3 + 7 * Len(runs)
                           /\ last_payload = dataPayload(runs)) =>
            /\ last_payload[1] = 160 /\ last_payload[2] = 1
            /\ last_payload[3] = Len(runs)
            /\ \A k \in 1..Len(runs) :
                   /\ RunByte(last_payload, k, 1) + 256 * RunByte(last_payload, k, 2)
                          = runs[k].start
                   /\ RunByte(last_payload, k, 3) + 256 * RunByte(last_payload, k, 4)
                          = runs[k].length
                   /\ <<RunByte(last_payload, k, 5), RunByte(last_payload, k, 6),
                         RunByte(last_payload, k, 7)>> = runs[k].color
            /\ last.handler = "parse_frame_packet"
            /\ last.arg = <<Len(runs)>>
            /\ DecodedRuns(last_payload) = runs
            /\ dataPayload(DecodedRuns(last_payload)) = last_payload

C21_Witness ==
    /\ build = "arduino"
    /\ last_payload = dataPayload(Stripe(255, 45, 1, 0))
    /\ last.arg = <<255>>
    /\ DecodedRuns(last_payload)[255] = Run(299, 1, Palette(255))
    /\ pixels[299] = Color(Palette(255)[1], Palette(255)[2], Palette(255)[3])
    /\ prev.handler = "parse_frame_packet"

\* the frames of CodecRunLists that do not fit the text parser's buffer
LongRunLists == {runs \in CodecRunLists : 3 + 7 * Len(runs) > PACKET_BUFFER - 1}

\* C30: a version-1 frame longer than 127 bytes (18 to 255 runs) is decoded
\* from the whole payload: all its runs are counted as applied and painted,
\* the rest of the pixels and the colour state and segment are left alone.
C30_Step ==
    \A runs \in LongRunLists :
        (Received /\ build = "arduino" /\ last_payload' = dataPayload(runs)) =>
            /\ last'.dispatch = "frame"
            /\ last'.arg = <<Len(runs)>>
            /\ last'.note = "ok"
            /\ pixels' = [i \in DOMAIN pixels |->
                             LET cover == {k \in 1..Len(runs) : Covers(runs[k], i)}
                             IN IF cover = {} THEN pixels[i]
                                ELSE RunColor(runs[CHOOSE k \in cover : TRUE])]
            /\ ColorState' = ColorState
            /\ Segment' = Segment

C30_LongFrameWhole == [][C30_Step]_vars

C30_Witness ==
    /\ build = "arduino"
    /\ last_payload = dataPayload(Stripe(18, 0, 16, 0))
    /\ Len(last_payload) = PACKET_BUFFER + 1
    /\ last.dispatch = "frame"
    /\ last.arg = <<18>>
    /\ pixels[287] = RunColor(Stripe(18, 0, 16, 0)[18])
    /\ prev.note = "startup"
    /\ pixels[288] = StateColor

\* the state the program keeps, with what the last callback did
Outcome(s) ==
    <<s.segment_start, s.segment_end, s.current_hue, s.current_saturation,
      s.current_brightness, s.hue_offset, s.brightness_offset, s.pixels,
      s.halted, s.last>>

\* C22: a text payload longer than 127 bytes is cut to its first 127 bytes
\* before matching: handling it leaves the state that handling those 127 bytes
\* alone leaves, and the copy with its terminator fits the 128-byte buffer.
C22_Step ==
    \A p \in LongTextPayloads :
        (Received /\ last_payload' = p) =>
            /\ Len(p) > PACKET_BUFFER - 1
            /\ Outcome(State') = Outcome(Callback(State, SubSeq(p, 1, PACKET_BUFFER - 1)))
            /\ Len(CopyToBuffer(p)) + 1 <= PACKET_BUFFER

C22_Truncated == [][C22_Step]_vars

\* "H_SET," and 120 spaces before "90" leave only the 9 within 127 bytes
C22_Witness ==
    /\ last_payload = kH_SET \o Rep(32, 120) \o T(<<"9","0">>)
    /\ Len(last_payload) = PACKET_BUFFER
    /\ last.handler = "set_hue"
    /\ current_hue = 9 * SCALE

\* C23 as stated: the argument of B is a percentage, like that of B_SET: right
\* after "B_SET,p", "B,d" gives the effective brightness clamp(b + d/100).
C23_AsStated_Step ==
    (Received /\ last.handler = "set_brightness" /\ last'.handler = "adjust_brightness") =>
        adjusted_brightness' = ClampBrightness(current_brightness + Quot(last'.arg[1], 100))

C23_Step ==
    (Received /\ last.handler = "set_brightness" /\ last'.handler = "adjust_brightness") =>
        LET d == last'.arg[1]
        IN /\ brightness_offset = 0
           /\ adjusted_brightness' = ClampBrightness(current_brightness + d)
           /\ (/\ current_brightness = Quot(last.arg[1], 100)
               /\ current_brightness + d >= MinBrightness(build)
               /\ current_brightness + d <= MaxBrightness(build))
                  => pixels' = set_brightness(State, last.arg[1] + 100 * d).pixels

C24_Step ==
    /\ Len(active') <= 1
    /\ (Len(active') > Len(active)) => active = <<>>
    /\ (active # <<>> /\ active' = active) =>
           /\ UNCHANGED <<segment_start, segment_end, pixels, ncmds, last>>
           /\ UNCHANGED ColorState

C26_ZeroSaturationIsGray ==
    (probe.fn = "hsv_to_rgb" /\ probe.arg[2] = 0) =>
        /\ probe.out[1] = probe.out[2]
        /\ probe.out[2] = probe.out[3]
        /\ probe.out[1] = (probe.arg[3] * 255) \div SCALE
        /\ \A h \in HsvHues : hsv_to_rgb(h, 0, probe.arg[3]) = probe.out

C26_Witness ==
    /\ probe.fn = "hsv_to_rgb"
    /\ probe.arg = <<240 * SCALE, 0, SCALE \div 2>>
    /\ probe.out = <<127, 127, 127>>

\* C27: with value 0 the converter returns black, whatever the hue and the
\* saturation.
C27_ZeroValueIsBlack ==
    (probe.fn = "hsv_to_rgb" /\ probe.arg[3] = 0) => probe.out = <<0, 0, 0>>

C27_Witness ==
    /\ probe.fn = "hsv_to_rgb"
    /\ probe.arg = <<120 * SCALE, SCALE, 0>>
    /\ probe.out = <<0, 0, 0>>

\* the sum the renderer clamps
BrightnessSum == current_brightness + brightness_offset

\* C28: right after any adjust_brightness the sum brightness +
\* brightness_offset lies in [MIN, MAX]; so when an adjustment has left it at
\* MAX (or MIN), a following adjustment of the opposite sign by d <= MAX - MIN
\* moves the effective brightness by exactly d.
C28_Step ==
    (Received /\ last'.handler = "adjust_brightness") =>
        /\ BrightnessSum' >= MinBrightness(build)
        /\ BrightnessSum' <= MaxBrightness(build)
        /\ adjusted_brightness' = BrightnessSum'
        /\ LET d == last'.arg[1]
               away == \/ (adjusted_brightness = MaxBrightness(build) /\ last.arg[1] > 0 /\ d < 0)
                       \/ (adjusted_brightness = MinBrightness(build) /\ last.arg[1] < 0 /\ d > 0)
           IN (/\ last.handler = "adjust_brightness"
               /\ away
               /\ Abs(d) <= MaxBrightness(build) - MinBrightness(build))
                  => adjusted_brightness' = adjusted_brightness + d

C28_NoWindup == [][C28_Step]_vars

\* "B,5" saturates at MAX, "B,-0.3" then shows MAX - 0.3
C28_Witness ==
    /\ prev.handler = "adjust_brightness"
    /\ prev.arg = <<5 * SCALE>>
    /\ last.handler = "adjust_brightness"
    /\ last.arg = <<-((3 * SCALE) \div 10)>>
    /\ adjusted_brightness = MaxBrightness(build) - (3 * SCALE) \div 10
    /\ BrightnessSum = adjusted_brightness

\* (angle + half) / (2 * half) clamped to [0, 1], for angle in ticks and half
\* in units of 1/100000
Norm01(angle, half) == Max2(0, Min(SCALE, Quot((angle * 100 + half) * SCALE, 2 * half)))

\* C29: for every (pitch, roll, yaw) a motion update commits the hue
\* (norm_yaw * 360 + norm_roll * 120) mod 360, in [0, 360), the saturation
\* clamp(0.35 + norm_roll * 0.65, 0.2, 1.0) and the base brightness
\* clamp(0.2 + norm_pitch * 0.8, MIN, MAX), with norm_roll and norm_yaw the
\* angle plus pi over 2 pi and norm_pitch the angle plus pi / 2 over pi, each
\* clamped to [0, 1].
C29_MotionMapping ==
    last.handler = "render_motion_color" =>
        LET norm_pitch == Norm01(2 * last.arg[1], PI5)
            norm_roll == Norm01(last.arg[2], PI5)
            norm_yaw == Norm01(last.arg[3], PI5)
        IN /\ current_hue = (norm_yaw * 360 + norm_roll * 120) % (360 * SCALE)
           /\ current_hue >= 0 /\ current_hue < 360 * SCALE
           /\ current_saturation =
                  Max2(200, Min(SCALE, 350 + (norm_roll * 65) \div 100))
           /\ current_saturation >= 200 /\ current_saturation <= SCALE
           /\ current_brightness = ClampBrightness(200 + (norm_pitch * 8) \div 10)
           /\ current_brightness >= MinBrightness(build)
           /\ current_brightness <= MaxBrightness(build)

\* angles far above the range: the hue wraps, saturation and brightness are
\* at their upper limits
C29_Witness ==
    /\ last.handler = "render_motion_color"
    /\ last.arg = <<9000, 18000, 18000>>
    /\ current_hue = 120 * SCALE
    /\ current_saturation = SCALE
    /\ current_brightness = MaxBrightness(build)
    /\ build = "pico"

\* C31 as stated: in every reachable state of every build, the initial state
\* included, the base brightness lies within the build's [MIN, MAX].
C31_BaseBrightnessInRange ==
    /\ current_brightness >= MinBrightness(build)
    /\ current_brightness <= MaxBrightness(build)


\* C32 as stated: in both BLE control apps, once the commands of the segment
\* updates made so far have been delivered in order to the 300-LED firmware,
\* the firmware's segment is the app's displayed segment, one less at each end.
C32_FirmwareSegmentIsAppSegment ==
    (seg_app.kind # "none" /\ seg_app.sent = <<>>) =>
        /\ segment_start = seg_app.segmentStart - 1
        /\ segment_end = seg_app.segmentEnd - 1


\* the runs follow one another from index 0 without gap or overlap, none is
\* empty, and their lengths add up to the strip
WholeStrip(runs) ==
    /\ Len(runs) >= 1
    /\ runs[1].start = 0
    /\ \A k \in 1..Len(runs) : runs[k].length >= 1
    /\ \A k \in 1..(Len(runs) - 1) : runs[k + 1].start = runs[k].start + runs[k].length
    /\ runs[Len(runs)].start + runs[Len(runs)].length = maxLights

\* the colour word a run list gives pixel i
AuthoredPixel(runs, i) ==
    The({ Color(runs[k].color[1], runs[k].color[2], runs[k].color[3])
          : k \in { j \in 1..Len(runs) :
                      runs[j].start <= i /\ i < runs[j].start + runs[j].length } })

\* C33: for every segmentStart and segmentEnd the run list of a frame (plain
\* or rainbow) starts at index 0, is contiguous and non-overlapping and sums to
\* maxLights; after the firmware has decoded a frame the app sent, every pixel
\* shows what that frame gives it and none shows an earlier frame.
C33_FrameCoversStrip ==
    /\ probe.fn \in {"buildRuns", "sendFrame"} => WholeStrip(probe.out)
    /\ probe.fn = "sendFrame" =>
          \A i \in 0..(maxLights - 1) : pixels[i] = AuthoredPixel(probe.out, i)

\* a rainbow frame over the middle of the strip has replaced a plain frame
\* that lit the whole strip
C33_Witness ==
    /\ probe.fn = "sendFrame"
    /\ probe.arg = <<101, 200, TRUE>>
    /\ Len(probe.out) = maxRainbowRuns + 2
    /\ ncmds = 2
    /\ prev.dispatch = "frame"
    /\ pixels[0] = Off
    /\ pixels[299] = Off
    /\ pixels[100] # Off


\* min(length, 50) runs, none empty, whose lengths add up to `length`
GradientShape(runs, length) ==
    /\ Len(runs) = Min(length, maxRainbowRuns)
    /\ \A k \in 1..Len(runs) : runs[k].length >= 1
    /\ SumSeq([k \in 1..Len(runs) |-> runs[k].length]) = length

\* each run starts where the one before ends, the first at `offset`
GradientContiguous(runs, offset) ==
    /\ runs[1].start = offset
    /\ \A k \in 1..(Len(runs) - 1) : runs[k + 1].start = runs[k].start + runs[k].length

\* a rainbow frame was encoded, with at most 52 runs
RainbowFrameEncoded ==
    probe.fn = "rainbowPayload" =>
        /\ probe.out # NoPayload
        /\ probe.out[3] <= maxRainbowRuns + 2

C35_ReconnectsAfterFailure == udp.awaiting ~> ~udp.awaiting


\* C36 as stated: under every interleaving of restartConnection,
\* setupConnection and state callbacks, a state callback of a connection that
\* is not the one stored in `connection` (cancelled or replaced) leaves
\* connectionReady as it was.
C36_Step ==
    (udp'.by # NilConnection /\ udp'.by # udp.connection) =>
        udp'.connectionReady = udp.connectionReady

C36_StaleCallbackLeavesReady == [][C36_Step]_vars


\* the RESET datagrams handed to a connection so far
ResetsSent == {i \in 1..Len(udp.sent) : udp.sent[i][2] = "RESET"}

\* a block that sends RESET is still in connectionQueue
ResetQueued == \E i \in 1..Len(udp.queue) :
                  udp.queue[i].op = "send" /\ udp.queue[i].arg = <<"RESET">>

\* C37 as stated: once the ready event of a connection has taken the reset
\* request and connectionQueue has run the send it submitted, one RESET has
\* been sent on that connection; and there are never more RESETs than calls
\* of requestResetAndReconnect.
C37_ResetSentOnNextReady ==
    /\ (udp.reset_owed # NilConnection /\ ~ResetQueued) =>
          \E i \in ResetsSent : udp.sent[i][1] = udp.reset_owed
    /\ Cardinality(ResetsSent) <= udp.resets


\* C38 as stated: while the receive callback is registered, the network stack
\* stays initialised: main has reached neither dhcp_server_deinit nor
\* cyw43_arch_deinit.
C38_StackUpWhileListening == ap.listener => (ap.dhcp /\ ap.cyw43)


BleFailureStep == ble'.by \in {"error", "nil_services", "service_missing"}

C39_Step ==
    /\ ble'.by = "didConnect" => ble'.serviceDiscoveryAttempts = 0
    /\ BleFailureStep => Len(ble'.timers) <= Len(ble.timers) + 1
    /\ ble'.scheduled <= 5
    /\ (BleFailureStep /\ ble'.failures = 6)
          => /\ ble'.status = "service not found"
             /\ ble'.timers = ble.timers

C40_AdjustmentStateConsistent ==
    adj.queue = <<>> =>
        /\ ~(adj.huePressed /\ adj.brightnessPressed)
        /\ adj.adjustmentMode = (IF adj.huePressed THEN "hue"
                                 ELSE IF adj.brightnessPressed THEN "brightness"
                                 ELSE "none")
        /\ ~adj.brightnessPressed => adj.lastBrightnessZ = NilDouble

============================================================================
